---- MODULE Spec2Model ----
(***************************************************************************)
(* A model of converters/converter.py: the attribute resolution and        *)
(* conversion pipeline of Converter (value resolution, defaults,           *)
(* required-ness, collection mapping, merging into a destination) and the  *)
(* context that nested conversions share.                                  *)
(*                                                                         *)
(* Python values are records [k, n, e]: k the kind, n a number (the value  *)
(* of an int, the index of a string, the address of a dict), e the         *)
(* elements of a list.  Dicts live in a heap (a sequence of mappings from  *)
(* attribute names to values), so that two references to one dict are      *)
(* told apart from two equal dicts.                                        *)
(***************************************************************************)
EXTENDS Integers, Sequences, FiniteSets, TLC

VARIABLES
    heap,       \* the dicts that exist: heap[i] is the content of dict i
    call,       \* the arguments of the last Converter.convert call
    outcome,    \* what that call returned or raised
    slot,       \* Converter._converter_context_local.context of the thread
    stack,      \* the conversions in progress, innermost last
    raising,    \* an exception is propagating up the stack
    finished,   \* set by the step that leaves a conversion: how it ended
                \* and the context it had found on entry
    named_converters,   \* Converter.named_converters, the dict every class shares
    results,    \* the conversions of a series that are over, oldest first
    running,    \* the instance_convert that runs step by step: its position
                \* and its local variables
    threads     \* per thread: its _converter_context_local.context and the
                \* conversions it has in progress

\* the variables of the series, of the stepwise conversion and of the threads
others == <<results, running, threads>>

vars == <<heap, call, outcome, slot, stack, raising, finished, named_converters,
          results, running, threads>>

----------------------------------------------------------------------------
(* Bounds of the model.                                                    *)

MaxInt == 2         \* ints in sources are 0..MaxInt
MaxList == 2        \* lists in sources have at most MaxList elements
MaxRules == 2       \* rule lists of bare names have at most MaxRules rules
MaxDepth == 2       \* at most MaxDepth conversions are nested
MaxSort == 3        \* lists that are sorted have at most MaxSort elements

----------------------------------------------------------------------------
(* Values.                                                                 *)

Atom(kind, num) == [k |-> kind, n |-> num, e |-> <<>>]

\* _SENTRY = type('ConverterSentry', (), {})(): "no value, omit the attribute"
_SENTRY == Atom("sentry", 0)

None == Atom("none", 0)

\* StrV(0) is the empty string '', StrV(i) for i > 0 a non-empty string
StrV(i) == Atom("str", i)

IntV(i) == Atom("int", i)

False == Atom("bool", 0)

True == Atom("bool", 1)

ListV(items) == [k |-> "list", n |-> 0, e |-> items]

\* a tuple: a collection that is no list, (1, 2) != [1, 2]
TupleV(items) == [k |-> "tuple", n |-> 0, e |-> items]

\* a Converter subclass as a value: ClassV(1) is SubConverter
ClassV(id) == Atom("class", id)

\* a dict held as a plain value, as the third element of a rule
DictV == Atom("dict", 0)

\* a reference to the dict heap[id]
Ref(id) == Atom("ref", id)

\* a reference to an instance of a class without methods (EmptyClass of the
\* tests), whose attributes are heap[id]
Obj(id) == Atom("obj", id)

\* a callable usable as a default: calling it returns CallDefault(c)
Callable(id) == Atom("callable", id)

\* NOS = '--Not On Source--'
NOS == "--Not On Source--"

\* the attribute names of the model; 'self' is the getter's reserved name
Keys == {"a", "b", "c", "self",
         "-not-on-dest-1", "-not-on-dest-2", "-not-on-dest-3"}

\* _next_not_on_dest_attr() when the counter yields i
NotOnDest(i) ==
    CASE i = 1 -> "-not-on-dest-1"
      [] i = 2 -> "-not-on-dest-2"
      [] OTHER -> "-not-on-dest-3"

\* a dict without keys: every name maps to the sentry
EmptyDict == [key \in Keys |-> _SENTRY]

\* the keys a dict has
KeysOf(d) == {key \in Keys : d[key] # _SENTRY}

\* the exceptions of the model ("" is a normal return)
XNone == ""

\* ValueRequired(from_attr): "... required but not found in the source"
XRequired == "ValueRequired: required but not found in the source"

\* ValueRequired(from_attr, "... does not satisfy requirement condition")
XCondition == "ValueRequired: value from source does not satisfy requirement condition"

XTypeError == "TypeError"

XValueError == "ValueError"

XAttributeError == "AttributeError"

XKeyError == "KeyError"

InvalidToClassException == "InvalidToClassException"

\* the result of a step that may change the heap or raise
Res(h, v, x) == [h |-> h, v |-> v, x |-> x]

\* a local variable of a method: F is the code that follows its assignment
Bind(v, F(_)) == F(v)

----------------------------------------------------------------------------
(* Options of a rule, read with opts.get(name, default) in the code: a     *)
(* record that holds, for an option the rule does not give, the default    *)
(* the code reads it with.                                                 *)

NoOpts ==
    [ required |-> "False",            \* "False", "True" or a predicate's name
      default |-> _SENTRY,             \* _SENTRY: the rule has no default
      pluralize |-> FALSE,
      _kwarg_override |-> None,
      pass_instance_to_converter |-> FALSE,
      getter |-> "absent",             \* "absent" or a getter's name
      filter |-> "absent",             \* "absent" or a predicate's name
      converter |-> "absent",          \* "absent", a function's or a class's name
      converter_wants_nones |-> FALSE,
      map |-> TRUE,
      merge |-> "absent",              \* "absent", "True" or "False"
      initialization_attribute |-> "absent",
      max_len |-> None,                \* None or an int
      skip_wash |-> FALSE,
      reverse_attr_name |-> "absent",  \* "absent" or an attribute's name
      sort |-> "False" ]               \* "False", "True", a function's name,
                                       \* or "1" for a value of another type

\* the class-level converter_options with their defaults
DefaultConverterOptions ==
    [ convert_nones_to_blanks |-> FALSE,
      include_nones |-> TRUE,
      include_empty_strings |-> TRUE,
      pass_attrs_to_init |-> FALSE,
      merge_all |-> FALSE,
      copy_only |-> FALSE ]

\* the functions rules name as predicates (required, filter)
Predicate(name, val) ==
    CASE name = "not_none" -> val # None
      [] name = "is_str" -> val.k = "str"
      [] name = "odd" -> val.k = "int" /\ val.n % 2 # 0
      [] name = "ge1" -> val.k = "int" /\ val.n >= 1
      [] OTHER -> TRUE

\* the functions rules name as converters and as sort keys: double is
\* lambda x: x * 2, parity is lambda x: x % 2 and neg is lambda x: -x (the
\* last two are applied to ints only)
Function(name, val) ==
    CASE name = "double" /\ val.k = "int" -> IntV(val.n * 2)
      [] name = "double" /\ val.k \in {"list", "tuple"} ->
             [val EXCEPT !.e = val.e \o val.e]
      [] name = "parity" /\ val.k = "int" -> IntV(val.n % 2)
      [] name = "neg" /\ val.k = "int" -> IntV(0 - val.n)
      [] name = "to_none" -> None              \* lambda x: None
      [] name = "to_blank" -> StrV(0)          \* lambda x: ''
      [] OTHER -> val

\* the class dict used as a callable default: dict() is a new empty dict
dict == Callable(0)

\* the dict that a call of dict() makes, until _get_value gives it its place
\* in the heap
NewDict == Atom("new", 0)

\* what a callable default returns
CallDefault(c) == IF c = dict THEN NewDict ELSE StrV(c.n)

----------------------------------------------------------------------------
(* Converter classes.  A class is a record: its name, from_class and       *)
(* to_class (the set of the types named: one type for a class, the         *)
(* alternatives of a Union, none for None),                                *)
(* its conversions (raw rules), its converter_options and what             *)
(* its build_context() returns (has_build_context FALSE: it defines none). *)
(* A raw rule is a record [form, f0, f1, f2, x]: form is the shape of   *)
(* the rule as normalize_single_copy_attr tells shapes apart, f0 and f1    *)
(* the names it holds, f2 the options dict it holds, x the element that    *)
(* is neither a name nor a dict.                                           *)

Raw(form, f0, f1, f2, x) == [form |-> form, f0 |-> f0, f1 |-> f1, f2 |-> f2, x |-> x]

\* the raw rule 'attr'
RawStr(attr) == Raw("str", attr, attr, NoOpts, _SENTRY)

\* the raw rule (to_attr, from_attr, {opts}); to_attr "" stands for a first
\* element that is falsy: None or ''
Raw3(to_attr, from_attr, opts) == Raw("to_from_opts", to_attr, from_attr, opts, _SENTRY)

\* a callable alone: function
RawCallable(x) == Raw("callable", "", "", NoOpts, x)

\* (to_attr,)
Raw1(to_attr) == Raw("to", to_attr, to_attr, NoOpts, _SENTRY)

\* (to_attr, from_attr) with from_attr a str, NOS included; to_attr "" is ''
Raw2(to_attr, from_attr) == Raw("to_from", to_attr, from_attr, NoOpts, _SENTRY)

\* (to_attr, x) with x not a str: a callable, or any other value but a dict
Raw2X(to_attr, x) == Raw("to_x", to_attr, to_attr, NoOpts, x)

\* (to_attr, {opts})
Raw2Opts(to_attr, opts) == Raw("to_opts", to_attr, to_attr, opts, _SENTRY)

\* (to_attr, from_attr, x) with x not a dict; to_attr "" stands for a first
\* element that is falsy: None or ''
Raw3X(to_attr, from_attr, x) == Raw("to_from_x", to_attr, from_attr, NoOpts, x)

\* a 3-tuple whose first element is not a str and not falsy (bad_to), or
\* whose second element is not a str (bad_from); a tuple of another length
\* (bad_len); a value that is not a str, a callable or an iterable (other)
RawBad(form) == Raw(form, "", "", NoOpts, _SENTRY)

\* a context without entries
EmptyContext == [key \in Keys |-> _SENTRY]

\* the names converters are registered under: 'a', 'ab' and 'dict', as the
\* converter option holds them
ConverterNames == {"str:a", "str:ab", "str:dict"}

\* named_converters once the module is imported: {'dict': DictConverter};
\* "" stands for a name that is no key of the dict
InitialRegistry ==
    [name \in ConverterNames |-> IF name = "str:dict" THEN "DictConverter" ELSE ""]

\* the class type('%sAdHocConverter' % converter.__name__, (Converter,), ...)
\* that register_converter_for_name makes of a function
AdHocConverter(converter_func) ==
    CASE converter_func = "double" -> "doubleAdHocConverter"
      [] converter_func = "neg" -> "negAdHocConverter"
      [] OTHER -> "identityAdHocConverter"

IsAdHocConverter(name) ==
    name \in {"doubleAdHocConverter", "negAdHocConverter", "identityAdHocConverter"}

\* the converter_func its convert calls: lambda self: converter_func(self.source)
AdHocFunction(name) ==
    CASE name = "doubleAdHocConverter" -> "double"
      [] name = "negAdHocConverter" -> "neg"
      [] OTHER -> "identity"

\* a class without methods of its own
NoMethod == [name |-> "", func |-> ""]

\* class DictConverter(Converter) with the given conversions and options
DictConverter(name, conversions, options) ==
    [ name |-> name, from_class |-> {"dict"}, to_class |-> {"dict"},
      conversions |-> conversions, converter_options |-> options,
      has_build_context |-> FALSE, built_context |-> EmptyContext,
      default_if_nos |-> None,
      method |-> NoMethod,                   \* a method the class defines
      converter_washers |-> "absent",        \* "absent": {}, or the washer of str
      named_converters |-> InitialRegistry,  \* what cls.named_converters is
      \* "inherited", or what the instantiate that the class defines returns
      \* (a find-or-create that finds nothing to convert into): "None" or
      \* "_SENTRY"
      instantiate |-> "inherited",
      post_convert |-> "absent" ]            \* or the hook the class defines

\* the sub-converter of the model, as SubConverter of test_converter_merge
SubConverter ==
    DictConverter("SubConverter", <<RawStr("a"), RawStr("b"), RawStr("c")>>,
                  DefaultConverterOptions)

\* the classes that rules name as their converter
IsConverterClass(name) == name \in {"SubConverter", "DictConverter"}

\* DictConverter itself has no conversions
ClassNamed(name) ==
    IF name = "DictConverter"
    THEN DictConverter("DictConverter", <<>>, DefaultConverterOptions)
    ELSE SubConverter

\* isinstance(source, from_class): bool is a subclass of int
IsInstance(val, class) ==
    CASE class = "dict" -> val.k = "ref"
      [] class = "object" -> TRUE
      [] class = "int" -> val.k \in {"int", "bool"}
      [] class = "str" -> val.k = "str"
      [] OTHER -> FALSE

\* type(source) is class
IsExactly(val, class) ==
    CASE class = "dict" -> val.k = "ref"
      [] class = "int" -> val.k = "int"
      [] class = "str" -> val.k = "str"
      [] OTHER -> FALSE

\* is_union_type(tp): Union[X] is X
is_union_type(tp) == Cardinality(tp) > 1

\* _is_valid_source_type that takes the instances of subclasses for invalid
_is_valid_source_type_exact(cls, source) ==
    \E ut \in cls.from_class : IsExactly(source, ut)

\* is_one_of_union_types(source, from_class) for a Union, isinstance for a
\* class
_is_valid_source_type(cls, source) ==
    \E ut \in cls.from_class : IsExactly(source, ut) \/ IsInstance(source, ut)

----------------------------------------------------------------------------
(* Rule normalization.                                                     *)

\* a str as the converter of a rule: the name of a method or of a
\* registered converter
StrName(x) ==
    CASE x.n = 1 -> "str:a"
      [] x.n = 2 -> "str:ab"
      [] OTHER -> "str:"

\* the name of the function or class that a rule holds as a value:
\* Callable(2) is double, every other function of the model is lambda x: x
NameOf(x) ==
    CASE x.k = "class" -> "SubConverter"
      [] x.k = "callable" /\ x.n = 2 -> "double"
      [] x.k = "str" -> StrName(x)
      [] OTHER -> "identity"

\* isinstance(x, Callable): a function or a class
IsCallable(x) == x.k \in {"callable", "class"}

\* a normalized rule, or the exception raised; count is what the counter
\* _COUNTER yields next, is_dict whether the third element has .get
Normalized(x, to_attr, from_attr, opts, count, is_dict) ==
    [x |-> x, to |-> to_attr, from |-> from_attr, opts |-> opts, count |-> count,
     is_dict |-> is_dict]

\* normalize_single_copy_attr with the forms of a 3-tuple told apart in the
\* order NOS, dict, converter
normalize_single_copy_attr_nos_first(cls, field, count) ==
    LET f == field
        to_or_fresh == IF f.f0 = "" THEN NotOnDest(count) ELSE f.f0
        drawn == IF f.f0 = "" THEN count + 1 ELSE count
    IN  CASE f.form = "str" -> Normalized(XNone, f.f0, f.f0, NoOpts, count, TRUE)
          [] f.form = "callable" ->
                 Normalized(XNone, NotOnDest(count), "self",
                            [NoOpts EXCEPT !.converter = NameOf(f.x)], count + 1, TRUE)
          [] f.form = "to" -> Normalized(XNone, f.f0, f.f0, NoOpts, count, TRUE)
          [] f.form = "to_from" ->
                 IF f.f1 = NOS /\ cls.default_if_nos # None
                 THEN Normalized(XNone, f.f0, NOS,
                                 [NoOpts EXCEPT !.default = cls.default_if_nos],
                                 count, TRUE)
                 ELSE Normalized(XNone, f.f0, f.f1, NoOpts, count, TRUE)
          [] f.form = "to_x" ->
                 IF IsCallable(f.x)
                 THEN Normalized(XNone, f.f0, f.f0,
                                 [NoOpts EXCEPT !.converter = NameOf(f.x)], count, TRUE)
                 ELSE Normalized(XNone, f.f0, f.f0, NoOpts, count, FALSE)
          [] f.form = "to_opts" -> Normalized(XNone, f.f0, f.f0, f.f2, count, TRUE)
          [] f.form = "to_from_opts" ->
                 IF f.f1 = NOS
                 THEN Normalized(XNone, to_or_fresh, NOS,
                                 [NoOpts EXCEPT !.default = DictV], drawn, TRUE)
                 ELSE Normalized(XNone, to_or_fresh, f.f1, f.f2, drawn, TRUE)
          [] f.form = "to_from_x" ->
                 IF f.f1 = NOS
                 THEN Normalized(XNone, to_or_fresh, NOS,
                                 [NoOpts EXCEPT !.default = f.x], drawn, TRUE)
                 ELSE IF ~IsCallable(f.x) /\ f.x.k # "str"
                 THEN Normalized(XTypeError, "", "", NoOpts, drawn, TRUE)
                 ELSE Normalized(XNone, to_or_fresh, f.f1,
                                 [NoOpts EXCEPT !.converter = NameOf(f.x)], drawn, TRUE)
          [] f.form = "bad_from" -> Normalized(XTypeError, "", "", NoOpts, drawn, TRUE)
          [] OTHER -> Normalized(XTypeError, "", "", NoOpts, count, TRUE)

\* count is what the counter yields next
normalize_single_copy_attr(cls, field, count) ==
    LET f == field
        to_or_fresh == IF f.f0 = "" THEN NotOnDest(count) ELSE f.f0
        drawn == IF f.f0 = "" THEN count + 1 ELSE count
        raise == Normalized(XTypeError, "", "", NoOpts, count, TRUE)
    IN  CASE f.form = "str" -> Normalized(XNone, f.f0, f.f0, NoOpts, count, TRUE)
          [] f.form = "callable" ->
                 Normalized(XNone, NotOnDest(count), "self",
                            [NoOpts EXCEPT !.converter = NameOf(f.x)], count + 1, TRUE)
          [] f.form = "to" -> Normalized(XNone, f.f0, f.f0, NoOpts, count, TRUE)
          [] f.form = "to_from" ->
                 IF f.f1 = NOS /\ cls.default_if_nos # None
                 THEN Normalized(XNone, f.f0, NOS,
                                 [NoOpts EXCEPT !.default = cls.default_if_nos],
                                 count, TRUE)
                 ELSE Normalized(XNone, f.f0, f.f1, NoOpts, count, TRUE)
          [] f.form = "to_x" ->
                 IF IsCallable(f.x)
                 THEN Normalized(XNone, f.f0, f.f0,
                                 [NoOpts EXCEPT !.converter = NameOf(f.x)], count, TRUE)
                 ELSE Normalized(XNone, f.f0, f.f0, NoOpts, count, FALSE)
          [] f.form = "to_opts" -> Normalized(XNone, f.f0, f.f0, f.f2, count, TRUE)
          [] f.form = "to_from_opts" ->
                 Normalized(XNone, to_or_fresh, f.f1, f.f2, drawn, TRUE)
          [] f.form = "to_from_x" ->
                 IF f.f1 = NOS
                 THEN Normalized(XNone, to_or_fresh, NOS,
                                 [NoOpts EXCEPT !.default = f.x], drawn, TRUE)
                 ELSE IF ~IsCallable(f.x) /\ f.x.k # "str"
                 THEN Normalized(XTypeError, "", "", NoOpts, drawn, TRUE)
                 ELSE Normalized(XNone, to_or_fresh, f.f1,
                                 [NoOpts EXCEPT !.converter = NameOf(f.x)], drawn, TRUE)
          [] f.form = "bad_from" -> Normalized(XTypeError, "", "", NoOpts, drawn, TRUE)
          [] OTHER -> raise

\* the sanity check of normalize_copy_attrs: a default is a callable, a
\* number or a str
DefaultIsAllowed(default) ==
    default = _SENTRY \/ default.k \in {"callable", "int", "bool", "str"}

\* the result's count is what the counter yields after the call
RECURSIVE normalize_copy_attrs(_, _, _)
normalize_copy_attrs(cls, copy_attrs, count) ==
    IF copy_attrs = <<>> THEN [x |-> XNone, attrs |-> <<>>, count |-> count]
    ELSE Bind(normalize_single_copy_attr(cls, Head(copy_attrs), count), LAMBDA one :
         IF one.x # XNone THEN [x |-> one.x, attrs |-> <<>>, count |-> one.count]
         ELSE IF ~one.is_dict             \* opts.get of a value that is no dict
         THEN [x |-> XAttributeError, attrs |-> <<>>, count |-> one.count]
         ELSE IF ~DefaultIsAllowed(one.opts.default)
         THEN [x |-> XTypeError, attrs |-> <<>>, count |-> one.count]
         ELSE Bind(normalize_copy_attrs(cls, Tail(copy_attrs), one.count), LAMBDA rest :
              IF rest.x # XNone THEN rest
              ELSE [x |-> XNone,
                    attrs |-> <<[to |-> one.to, from |-> one.from, opts |-> one.opts]>>
                              \o rest.attrs,
                    count |-> rest.count]))

\* a normalized rule as a raw rule, for the second normalization
AsRaw(attr) == Raw3(attr.to, attr.from, attr.opts)

\* the loop of dynamic_copy_attrs over extra_attrs, a sequence of records
\* [k, v] in the order of the keyword arguments: the first rule whose
\* destination is k gets the option _kwarg_override, or else a rule
\* (k, NOS, {'_kwarg_override': v}) is appended
RECURSIVE WithExtraAttrs(_, _)
WithExtraAttrs(attrs, extra_attrs) ==
    IF extra_attrs = <<>> THEN attrs
    ELSE LET k == Head(extra_attrs).k
             v == Head(extra_attrs).v
             found == {i \in 1..Len(attrs) : attrs[i].to = k}
             first == CHOOSE i \in found : \A j \in found : i <= j
         IN  WithExtraAttrs(
                 IF found # {}
                 THEN [attrs EXCEPT ![first].opts._kwarg_override = v]
                 ELSE Append(attrs, [to |-> k, from |-> NOS,
                                     opts |-> [NoOpts EXCEPT !._kwarg_override = v]]),
                 Tail(extra_attrs))

\* the classes of the model have no converter_additional_attrs
dynamic_copy_attrs(cls, extra_attrs, count) ==
    Bind(normalize_copy_attrs(cls, cls.conversions, count), LAMBDA normalized :
         IF normalized.x # XNone THEN normalized
         ELSE [normalized EXCEPT !.attrs = WithExtraAttrs(normalized.attrs, extra_attrs)])

_normalized_dynamic_copy_attrs(cls, extra_attrs, count) ==
    Bind(dynamic_copy_attrs(cls, extra_attrs, count), LAMBDA first :
         IF first.x # XNone THEN first
         ELSE normalize_copy_attrs(cls,
                  [i \in 1..Len(first.attrs) |-> AsRaw(first.attrs[i])], first.count))

\* Converter.__init__: the type checks and the normalization; the result is
\* the instance (self) or the exception raised.  count is what the counter
\* _COUNTER yields next.
Construct(cls, source, context, dest, extra_attrs, count) ==
    IF cls.from_class = {} \/ cls.to_class = {}
    THEN [x |-> XTypeError, self |-> None, count |-> count]
    ELSE IF is_union_type(cls.to_class)
    THEN [x |-> InvalidToClassException, self |-> None, count |-> count]
    ELSE IF source # None /\ ~_is_valid_source_type(cls, source)
    THEN [x |-> XTypeError, self |-> None, count |-> count]
    ELSE Bind(_normalized_dynamic_copy_attrs(cls, extra_attrs, count), LAMBDA attrs :
         [x |-> attrs.x, count |-> attrs.count,
          self |-> [ cls |-> cls, source |-> source, dest |-> dest,
                     extra_attrs |-> extra_attrs, _context |-> context,
                     _normalized_attrs |-> attrs.attrs ]])

----------------------------------------------------------------------------
(* Getting a rule's value.                                                 *)

\* pydash.get(obj, path, default) for a mapping and an undotted path
Get(d, attr, default) ==
    IF attr \in DOMAIN d /\ d[attr] # _SENTRY THEN d[attr] ELSE default

\* 'a.b'.partition('.'): <<left, right>>, right = "" without a dot
partition(attr) ==
    CASE attr = "a.b" -> <<"a", "b">>
      [] attr = "a.c" -> <<"a", "c">>
      [] attr = "b.c" -> <<"b", "c">>
      [] attr = "a.b.c" -> <<"a", "b.c">>
      [] attr = "self.b" -> <<"self", "b">>
      [] OTHER -> <<attr, "">>

\* pydash get(src, attr, default): attr is a path, followed key by key
RECURSIVE get(_, _, _, _)
get(h, src, attr, default) ==
    IF src.k \notin {"ref", "obj"} THEN default
    ELSE IF partition(attr)[2] = "" THEN Get(h[src.n], attr, default)
    ELSE IF Get(h[src.n], partition(attr)[1], _SENTRY) = _SENTRY THEN default
    ELSE get(h, Get(h[src.n], partition(attr)[1], _SENTRY), partition(attr)[2], default)

default_getter(h, self, src, attr, default) ==
    IF attr = "self" THEN self.source
    ELSE get(h, src, attr, default)

\* the getters rules name in their getter option, called as
\* getter(self.source, from_attr, opts): get_c reads 'c' whatever the rule's
\* source attribute is
CustomGetter(name, h, source, from_attr) ==
    IF source.k = "ref" THEN Get(h[source.n], "c", _SENTRY) ELSE _SENTRY

val_is_collection(val) == val.k \in {"list", "tuple"}

pluralize_val(val) == ListV(<<val>>)

\* _get_value_raw with the context consulted before the source
_get_value_raw_context_first(h, self, ctx, inst, from_attr, opts) ==
    LET val == IF opts.pass_instance_to_converter THEN inst
               ELSE IF from_attr = NOS THEN _SENTRY
               ELSE IF opts.getter # "absent"
               THEN CustomGetter(opts.getter, h, self.source, from_attr)
               ELSE default_getter(h, self, self.source, from_attr, _SENTRY)
        in_context == Get(ctx, from_attr, _SENTRY)
    IN  IF in_context # _SENTRY THEN in_context ELSE val

\* _get_value up to the context lookup: the value the getter returns, or
\* else the context's entry of the same name
_get_value_raw(h, self, ctx, inst, from_attr, opts) ==
    LET val == IF opts.pass_instance_to_converter THEN inst
               ELSE IF from_attr = NOS THEN _SENTRY
               ELSE IF opts.getter # "absent"
               THEN CustomGetter(opts.getter, h, self.source, from_attr)
               ELSE default_getter(h, self, self.source, from_attr, _SENTRY)
    IN  IF val = _SENTRY
        THEN Get(ctx, from_attr, _SENTRY)     \* try the context
        ELSE val

\* _get_value_default with the default used for a missing value only
_get_value_default_missing_only(val, opts) ==
    LET default == opts.default
        plural == IF opts.pluralize /\ ~val_is_collection(val)
                  THEN pluralize_val(val) ELSE val
    IN  IF val = _SENTRY
        THEN IF default = _SENTRY THEN _SENTRY
             ELSE IF default.k = "callable" THEN CallDefault(default) ELSE default
        ELSE plural

\* _get_value_default with None and '' omitted when there is no default
_get_value_default_drops_blank(val, opts) ==
    LET default == opts.default
        plural == IF opts.pluralize /\ ~val_is_collection(val)
                  THEN pluralize_val(val) ELSE val
    IN  IF val = _SENTRY \/ val = None \/ val = StrV(0)
        THEN IF default = _SENTRY THEN _SENTRY
             ELSE IF default.k = "callable" THEN CallDefault(default) ELSE default
        ELSE plural

\* _get_value from the default on: the default for a missing value, None
\* or '', and pluralize for a value that is kept
_get_value_default(val, opts) ==
    LET default == opts.default
        plural == IF opts.pluralize /\ ~val_is_collection(val)
                  THEN pluralize_val(val) ELSE val
    IN  IF val = _SENTRY \/ val = None \/ val = StrV(0)
        THEN IF default = _SENTRY /\ val = _SENTRY THEN _SENTRY
             ELSE IF default # _SENTRY
             THEN IF default.k = "callable" THEN CallDefault(default) ELSE default
             ELSE plural
        ELSE plural

\* _get_value with a default that was called once, by the first conversion
\* of a series: every later resolution gets the dict made then
_get_value_default_called_once(h, self, ctx, inst, from_attr, opts) ==
    IF opts._kwarg_override # None THEN Res(h, opts._kwarg_override, XNone)
    ELSE Bind(_get_value_default(_get_value_raw(h, self, ctx, inst, from_attr, opts),
                                 opts),
              LAMBDA val : IF val = NewDict /\ results # <<>>
                           THEN Res(h, heap[results[1].v.n]["a"], XNone)
                           ELSE IF val = NewDict
                           THEN Res(Append(h, EmptyDict), Ref(Len(h) + 1), XNone)
                           ELSE Res(h, val, XNone))

\* the result's h is the heap after the call: default() may make a dict
_get_value(h, self, ctx, inst, from_attr, opts) ==
    IF opts._kwarg_override # None THEN Res(h, opts._kwarg_override, XNone)
    ELSE Bind(_get_value_default(_get_value_raw(h, self, ctx, inst, from_attr, opts),
                                 opts),
              LAMBDA val : IF val = NewDict
                           THEN Res(Append(h, EmptyDict), Ref(Len(h) + 1), XNone)
                           ELSE Res(h, val, XNone))

----------------------------------------------------------------------------
(* The context.                                                            *)

\* {**a, **b}
DictMerge(a, b) == [key \in Keys |-> IF b[key] # _SENTRY THEN b[key] ELSE a[key]]

\* what build_context() returns, {} for a class without one
new_built_context(cls) ==
    IF cls.has_build_context THEN cls.built_context ELSE EmptyContext

\* _updated_context with build_context() overriding the caller's context
_updated_context_built_last(old_context, built, new_context) ==
    DictMerge(DictMerge(old_context, new_context), built)

\* _updated_context with the previous context overriding build_context()
_updated_context_inherited_wins(old_context, built, new_context) ==
    DictMerge(DictMerge(built, old_context), new_context)

\* the context _updated_context installs:
\* {**old_context, **new_built_context, **new_context}
_updated_context(old_context, built, new_context) ==
    DictMerge(DictMerge(old_context, built), new_context)

----------------------------------------------------------------------------
(* The conversion pipeline.  Every operator takes the heap and returns     *)
(* Res(heap, value, exception).                                            *)

_filter_includes_val(filter_, val) == Predicate(filter_, val)

\* _attr_should_be_merged without the merge_all class option
_attr_should_be_merged_rule_only(self, opts) == opts.merge = "True"

\* opts.get('merge', merge_all)
_attr_should_be_merged(self, opts) ==
    IF opts.merge = "absent" THEN self.cls.converter_options.merge_all
    ELSE opts.merge = "True"

_is_initialization_attr(self, attr, opts) ==
    IF opts.initialization_attribute # "absent"
    THEN opts.initialization_attribute = "True"
    ELSE /\ self.cls.converter_options.pass_attrs_to_init
         /\ ~opts.pass_instance_to_converter
         /\ partition(attr)[2] = ""                 \* not attr_is_deep
         /\ opts.reverse_attr_name = "absent"
         /\ opts.merge # "True"

\* inst[to_attr] = val for a dict; setattr on an instance without
\* attributes (a number, a string, None) raises
\* the loop at the end of _set_value over an iterable that is no dict:
\* self.setter(inst_, to_attr, val, opts), that is setattr, on each of its
\* elements.  A dict, like a number or a string, has no attributes to set.
RECURSIVE SetOnEach(_, _, _, _)
SetOnEach(h, insts, to_attr, val) ==
    IF insts = <<>> THEN Res(h, None, XNone)
    ELSE IF Head(insts).k # "obj" THEN Res(h, None, XAttributeError)
    ELSE SetOnEach([h EXCEPT ![Head(insts).n] = [@ EXCEPT ![to_attr] = val]],
                   Tail(insts), to_attr, val)

\* _set_value for a name without a dot and no setter option:
\* inst[to_attr] = val on a dict and setattr on an instance.  Every other
\* object of the model refuses setattr; an iterable that is no dict has the
\* attribute set on each of its elements, so that nothing happens when it
\* is empty.
SetLast(h, inst, to_attr, val) ==
    IF inst.k \in {"ref", "obj"}
    THEN Res([h EXCEPT ![inst.n] = [@ EXCEPT ![to_attr] = val]], None, XNone)
    ELSE IF inst.k \in {"list", "tuple"} THEN SetOnEach(h, inst.e, to_attr, val)
    ELSE IF inst = StrV(0) THEN Res(h, None, XNone)
    ELSE Res(h, None, XAttributeError)

RECURSIVE _set_value(_, _, _, _, _, _)

\* _set_value that raises when a node of the path is missing
_set_value_missing_raises(h, self, inst, to_attr, opts, val) ==
    IF partition(to_attr)[2] # ""
    THEN Bind(default_getter(h, self, inst, partition(to_attr)[1], None),
              LAMBDA subval :
                  IF subval = None THEN Res(h, None, XAttributeError)
                  ELSE _set_value(h, self, subval, partition(to_attr)[2], opts, val))
    ELSE SetLast(h, inst, to_attr, val)

\* a path 'a.b' is followed through to_getter (the default getter), and
\* nothing is set when a node on the way is None or missing
_set_value(h, self, inst, to_attr, opts, val) ==
    IF partition(to_attr)[2] # ""
    THEN Bind(default_getter(h, self, inst, partition(to_attr)[1], None),
              LAMBDA subval :
                  IF subval = None THEN Res(h, None, XNone)
                  ELSE _set_value(h, self, subval, partition(to_attr)[2], opts, val))
    ELSE SetLast(h, inst, to_attr, val)

\* the washers of the model: {} or {str: lambda s: s[1:]}
wash_result(self, val) ==
    IF self.cls.converter_washers = "tail" /\ val.k = "str"
    THEN StrV(IF val.n = 0 THEN 0 ELSE val.n - 1)
    ELSE val

\* 'dest' in signature(cfunc).parameters: the wrapper of a Converter class
\* takes dest, the functions of the model take the value alone
wants_dest(sub_converter) ==
    IsConverterClass(sub_converter) \/ IsAdHocConverter(sub_converter)

\* dct[to_attr] = (val, opts) on an OrderedDict: a key keeps its place
OrderedDictSet(dct, to_attr, val, opts) ==
    LET entry == [to |-> to_attr, val |-> val, opts |-> opts]
    IN  IF \E i \in 1..Len(dct) : dct[i].to = to_attr
        THEN [i \in 1..Len(dct) |-> IF dct[i].to = to_attr THEN entry ELSE dct[i]]
        ELSE Append(dct, entry)

RECURSIVE populate_instance(_, _, _, _)
populate_instance(h, self, inst, params) ==
    IF params = <<>> THEN Res(h, inst, XNone)
    ELSE LET p == Head(params)
         IN  IF p.opts.merge = "True"
             THEN populate_instance(h, self, inst, Tail(params))
             ELSE LET set == _set_value(h, self, inst, p.to, p.opts, p.val)
                  IN  IF set.x # XNone THEN set
                      ELSE populate_instance(set.h, self, inst, Tail(params))

\* self.to_class(**attr_val_only_map) for to_class dict: a new dict
instantiate(h, self, dct) ==
    IF self.cls.instantiate = "None" THEN Res(h, None, XNone)
    ELSE IF self.cls.instantiate = "_SENTRY" THEN Res(h, _SENTRY, XNone)
    ELSE IF self.cls.converter_options.copy_only THEN Res(h, _SENTRY, XTypeError)
    ELSE LET content == [key \in Keys |->
                            IF \E i \in 1..Len(dct) : dct[i].to = key
                            THEN dct[CHOOSE i \in 1..Len(dct) : dct[i].to = key].val
                            ELSE _SENTRY]
         IN  Res(Append(h, content), Ref(Len(h) + 1), XNone)

RECURSIVE convert(_, _, _)

\* cfunc(val, dest=dest); dest = _SENTRY: the keyword is not passed.  The
\* wrapper of a Converter class passes no extra attributes on, and the
\* sub-converters of the model hold bare names only: their construction
\* draws no name from the counter.
\* the mutant of cfunc: the keyword argument is set on the value itself,
\* which is handed on as it is
cfunc_wires_the_value(h, self, ctx, sub_converter, val, dest, kwargs) ==
    IF kwargs # <<>> /\ val.k \in {"ref", "obj"}
    THEN Res([h EXCEPT ![val.n] = [@ EXCEPT ![kwargs[1].k] = kwargs[1].v]], val, XNone)
    ELSE Res(h, val, XNone)

cfunc(h, self, ctx, sub_converter, val, dest, kwargs) ==
    IF IsAdHocConverter(sub_converter)
    \* from_class is object and convert is lambda self: converter_func(self.source)
    THEN Res(h, Function(AdHocFunction(sub_converter), val), XNone)
    ELSE IF IsConverterClass(sub_converter)
    THEN Bind(Construct(ClassNamed(sub_converter), val, EmptyContext,
                        IF dest = _SENTRY THEN None ELSE dest, kwargs, 1),
              LAMBDA made :
                  IF made.x # XNone THEN Res(h, _SENTRY, made.x)
                  ELSE convert(h, made.self, ctx))
    \* a function of the model takes the value alone
    ELSE IF kwargs # <<>> THEN Res(h, _SENTRY, XTypeError)
    ELSE Res(h, Function(sub_converter, val), XNone)

\* the list comprehension of _convert_child: zip(val, sub_dest) when the
\* elements are paired with destination elements (zip ends with the shorter
\* of the two), each element that passes the filter converted, the sentries
\* dropped
RECURSIVE MapElements(_, _, _, _, _, _, _, _, _, _)
MapElements(h, self, ctx, sub_converter, filter_, vals, paired, sub_dests, acc, kwargs) ==
    IF vals = <<>> \/ (paired /\ sub_dests = <<>>) THEN Res(h, ListV(acc), XNone)
    ELSE LET val_ == Head(vals)
             sd == IF paired THEN Head(sub_dests) ELSE _SENTRY
             rest == IF paired THEN Tail(sub_dests) ELSE sub_dests
         IN  IF filter_ # "absent" /\ ~_filter_includes_val(filter_, val_)
             THEN MapElements(h, self, ctx, sub_converter, filter_, Tail(vals),
                              paired, rest, acc, kwargs)
             ELSE Bind(cfunc(h, self, ctx, sub_converter, val_, sd, kwargs),
                       LAMBDA subval :
                           IF subval.x # XNone THEN subval
                           ELSE MapElements(subval.h, self, ctx, sub_converter,
                                            filter_, Tail(vals), paired, rest,
                                            IF subval.v = _SENTRY THEN acc
                                            ELSE Append(acc, subval.v), kwargs))

\* a str as sub_converter: getattr(self, sub_converter_str, None) if that is
\* callable, or else self.named_converters[sub_converter_str]; "" stands
\* for the KeyError
named_converter(self, sub_converter_str) ==
    IF self.cls.method.name = sub_converter_str THEN self.cls.method.func
    ELSE IF sub_converter_str \in DOMAIN self.cls.named_converters
    THEN self.cls.named_converters[sub_converter_str]
    ELSE ""

\* isinstance(sub_converter, str)
IsStrConverter(sub_converter) ==
    sub_converter \in ConverterNames \cup {"str:"}

_convert_child(h, self, ctx, to_attr, opts, val, inst) ==
    LET filter_ == opts.filter
        should_map == opts.map /\ val_is_collection(val)
        \* filter_ set without a converter: sub_converter = identity
        sub_converter == IF opts.converter = "absent" THEN "identity"
                         ELSE IF IsStrConverter(opts.converter)
                         THEN named_converter(self, opts.converter)
                         ELSE opts.converter
        sub_dest == IF _attr_should_be_merged(self, opts)
                    THEN default_getter(h, self, inst, to_attr, _SENTRY)
                    ELSE _SENTRY
        pass_dest == wants_dest(sub_converter) /\ sub_dest # _SENTRY
        reverse_attr_name == opts.reverse_attr_name
        kwargs == IF reverse_attr_name = "absent" THEN <<>>
                  ELSE <<[k |-> reverse_attr_name, v |-> inst]>>
    IN  IF ~should_map /\ filter_ # "absent" /\ ~_filter_includes_val(filter_, val)
        THEN Res(h, _SENTRY, XNone)
        ELSE IF opts.converter = "absent" /\ filter_ = "absent"
        THEN IF reverse_attr_name # "absent" /\ inst # _SENTRY
             THEN Bind(_set_value(h, self, val, reverse_attr_name, NoOpts, inst),
                       LAMBDA set : Res(set.h, IF set.x = XNone THEN val ELSE _SENTRY,
                                        set.x))
             ELSE Res(h, val, XNone)
        ELSE IF val = None /\ ~opts.converter_wants_nones
        THEN Res(h, None, XNone)
        ELSE IF sub_converter = ""
        THEN Res(h, _SENTRY, XKeyError)         \* self.named_converters[...]
        ELSE IF reverse_attr_name # "absent" /\ inst = _SENTRY
        THEN Res(h, _SENTRY, XValueError)
        ELSE IF should_map
        THEN IF pass_dest /\ ~val_is_collection(sub_dest)
             THEN Res(h, _SENTRY, XTypeError)    \* zip() of a value not iterable
             ELSE MapElements(h, self, ctx, sub_converter, filter_, val.e, pass_dest,
                              IF pass_dest THEN sub_dest.e ELSE <<>>, <<>>, kwargs)
        ELSE cfunc(h, self, ctx, sub_converter, val,
                   IF pass_dest THEN sub_dest ELSE _SENTRY, kwargs)

\* value[:max_len] of a str (the strings of the model are '', 'a', 'ab',
\* ..., StrV(i) of length i) or of a list; a value that cannot be sliced
\* raises.  max_len is not negative in the model.
truncate_value(h, value, max_len) ==
    CASE value.k = "str" ->
             Res(h, StrV(IF value.n < max_len.n THEN value.n ELSE max_len.n), XNone)
      [] value.k \in {"list", "tuple"} ->
             Res(h, [value EXCEPT !.e = SubSeq(value.e, 1,
                                               IF Len(value.e) < max_len.n
                                               THEN Len(value.e) ELSE max_len.n)],
                 XNone)
      [] OTHER -> Res(h, _SENTRY, XTypeError)

\* SortKey with a callable sort ignored
SortKey_direct(sort_, x) == x

\* the key sorted() compares an element by
SortKey(sort_, x) == IF sort_ = "True" THEN x ELSE Function(sort_, x)

\* x < y of two keys is defined: two ints or two strs
Comparable(x, y) == x.k = y.k /\ x.k \in {"int", "str"}

\* sorted(): q with x inserted after the elements whose key is not greater
\* (the sort is stable)
RECURSIVE Insert(_, _, _)
Insert(sort_, q, x) ==
    IF q = <<>> THEN <<x>>
    ELSE IF SortKey(sort_, x).n < SortKey(sort_, Head(q)).n THEN <<x>> \o q
    ELSE <<Head(q)>> \o Insert(sort_, Tail(q), x)

RECURSIVE Sorted(_, _)
Sorted(sort_, q) ==
    IF q = <<>> THEN <<>>
    ELSE Insert(sort_, Sorted(sort_, SubSeq(q, 1, Len(q) - 1)), q[Len(q)])

\* the sort step of _normalize_value
sorted(h, val, sort_) ==
    IF ~val_is_collection(val) THEN Res(h, _SENTRY, XValueError)
    ELSE IF sort_ = "1" THEN Res(h, _SENTRY, XTypeError)
    ELSE IF \E i, j \in 1..Len(val.e) :
                i # j /\ ~Comparable(SortKey(sort_, val.e[i]), SortKey(sort_, val.e[j]))
    THEN Res(h, _SENTRY, XTypeError)
    ELSE Res(h, ListV(Sorted(sort_, val.e)), XNone)

\* _normalize_value with include_nones, convert_nones_to_blanks and
\* include_empty_strings applied last, to the washed, truncated and sorted
\* value
_normalize_value_options_last(h, self, ctx, to_attr, from_attr, opts, inst) ==
    LET value_requirement == opts.required
        options == self.cls.converter_options
    IN  Bind(_get_value(h, self, ctx, inst, from_attr, opts), LAMBDA got :
        IF got.v = _SENTRY
        THEN Res(got.h, _SENTRY,
                 IF value_requirement # "False" THEN XRequired ELSE XNone)
        ELSE IF value_requirement \notin {"False", "True"}
                /\ ~Predicate(value_requirement, got.v)
        THEN Res(got.h, _SENTRY, XCondition)
        ELSE
        Bind(_convert_child(got.h, self, ctx, to_attr, opts, got.v, inst),
             LAMBDA child :
            IF child.x # XNone \/ child.v = _SENTRY THEN child
            ELSE
            Bind(IF opts.skip_wash \/ child.v = None THEN child.v
                 ELSE wash_result(self, child.v), LAMBDA washed :
            Bind(IF opts.max_len = None \/ washed = None THEN Res(child.h, washed, XNone)
                 ELSE truncate_value(child.h, washed, opts.max_len),
                 LAMBDA cut :
            Bind(IF cut.x # XNone \/ opts.sort = "False" \/ cut.v = None THEN cut
                 ELSE sorted(cut.h, cut.v, opts.sort), LAMBDA final :
            Bind(IF final.v = None /\ options.convert_nones_to_blanks
                 THEN StrV(0) ELSE final.v, LAMBDA blank :
                IF final.x # XNone THEN final
                ELSE IF ~options.include_nones /\ final.v = None
                THEN Res(final.h, _SENTRY, XNone)
                ELSE IF ~options.include_empty_strings /\ blank = StrV(0)
                THEN Res(final.h, _SENTRY, XNone)
                ELSE Res(final.h, blank, XNone)))))))

_normalize_value(h, self, ctx, to_attr, from_attr, opts, inst) ==
    LET value_requirement == opts.required
        options == self.cls.converter_options
    IN  Bind(_get_value(h, self, ctx, inst, from_attr, opts), LAMBDA got :
        IF got.v = _SENTRY
        THEN Res(got.h, _SENTRY,
                 IF value_requirement # "False" THEN XRequired ELSE XNone)
        ELSE IF value_requirement \notin {"False", "True"}
                /\ ~Predicate(value_requirement, got.v)
        THEN Res(got.h, _SENTRY, XCondition)
        ELSE
        Bind(_convert_child(got.h, self, ctx, to_attr, opts, got.v, inst),
             LAMBDA child :
        Bind(IF child.v = None /\ options.convert_nones_to_blanks
             THEN StrV(0) ELSE child.v, LAMBDA blank :
            IF child.x # XNone THEN child
            ELSE IF ~options.include_nones /\ child.v = None
            THEN Res(child.h, _SENTRY, XNone)
            ELSE IF ~options.include_empty_strings /\ blank = StrV(0)
            THEN Res(child.h, _SENTRY, XNone)
            ELSE IF blank = _SENTRY THEN Res(child.h, _SENTRY, XNone)
            ELSE
            Bind(IF opts.skip_wash THEN blank ELSE wash_result(self, blank),
                 LAMBDA washed :
            Bind(IF opts.max_len = None THEN Res(child.h, washed, XNone)
                 ELSE truncate_value(child.h, washed, opts.max_len),
                 LAMBDA cut :
                IF cut.x # XNone \/ opts.sort = "False" THEN cut
                ELSE sorted(cut.h, cut.v, opts.sort))))))

\* params_for_population that sets each value as soon as it is resolved
RECURSIVE Params_sets_at_once(_, _, _, _, _, _, _)
Params_sets_at_once(h, self, ctx, attrs, inst, for_init, dct) ==
    IF attrs = <<>> THEN Res(h, dct, XNone)
    ELSE LET attr == Head(attrs)
         IN  IF _is_initialization_attr(self, attr.to, attr.opts) # for_init
             THEN Params_sets_at_once(h, self, ctx, Tail(attrs), inst, for_init, dct)
             ELSE Bind(_normalize_value(h, self, ctx, attr.to, attr.from,
                                        attr.opts, inst),
                       LAMBDA val :
                           IF val.x # XNone THEN Res(val.h, dct, val.x)
                           ELSE Params_sets_at_once(
                                    IF val.v = _SENTRY \/ for_init THEN val.h
                                    ELSE _set_value(val.h, self, inst, attr.to,
                                                    attr.opts, val.v).h,
                                    self, ctx, Tail(attrs), inst, for_init,
                                    IF val.v = _SENTRY THEN dct
                                    ELSE OrderedDictSet(dct, attr.to, val.v,
                                                        attr.opts)))

\* the loop of params_for_initialization (for_init) and of
\* params_for_population: the result's v is the OrderedDict, as a sequence
RECURSIVE Params(_, _, _, _, _, _, _)
Params(h, self, ctx, attrs, inst, for_init, dct) ==
    IF attrs = <<>> THEN Res(h, dct, XNone)
    ELSE LET attr == Head(attrs)
         IN  IF _is_initialization_attr(self, attr.to, attr.opts) # for_init
             THEN Params(h, self, ctx, Tail(attrs), inst, for_init, dct)
             ELSE Bind(_normalize_value(h, self, ctx, attr.to, attr.from,
                                        attr.opts, inst),
                       LAMBDA val :
                           IF val.x # XNone THEN Res(val.h, dct, val.x)
                           ELSE Params(val.h, self, ctx, Tail(attrs), inst, for_init,
                                       IF val.v = _SENTRY THEN dct
                                       ELSE OrderedDictSet(dct, attr.to, val.v,
                                                           attr.opts)))

params_for_initialization(h, self, ctx) ==
    Params(h, self, ctx, self._normalized_attrs, _SENTRY, TRUE, <<>>)

params_for_population(h, self, ctx, inst) ==
    Params(h, self, ctx, self._normalized_attrs, inst, FALSE, <<>>)

\* the post_convert hooks of the model: "stamp" is
\*     def post_convert(self, inst): inst['c'] = True; return inst
\* and "replace" is lambda self, inst: 'ab'
post_convert(h, self, inst) ==
    IF self.cls.post_convert = "stamp"
    THEN IF inst.k = "ref"
         THEN Res([h EXCEPT ![inst.n] = [@ EXCEPT !["c"] = True]], inst, XNone)
         ELSE Res(h, _SENTRY, XTypeError)
    ELSE Res(h, StrV(2), XNone)

\* instance_convert that constructs an instance whether a destination is
\* supplied or not
instance_convert_always_instantiates(h, self, ctx) ==
    Bind(params_for_initialization(h, self, ctx), LAMBDA init_attrs :
    IF init_attrs.x # XNone THEN Res(init_attrs.h, _SENTRY, init_attrs.x)
    ELSE
    Bind(instantiate(init_attrs.h, self, init_attrs.v), LAMBDA made :
    IF made.x # XNone THEN Res(made.h, _SENTRY, made.x)
    ELSE IF made.v = None \/ made.v = _SENTRY
    THEN Res(made.h, made.v, XNone)
    ELSE
    Bind(params_for_population(made.h, self, ctx, made.v), LAMBDA pop_parms :
    IF pop_parms.x # XNone THEN Res(pop_parms.h, _SENTRY, pop_parms.x)
    ELSE
    Bind(populate_instance(pop_parms.h, self, made.v, pop_parms.v), LAMBDA populated :
    IF populated.x # XNone \/ self.cls.post_convert = "absent" THEN populated
    ELSE post_convert(populated.h, self, made.v)))))

instance_convert(h, self, ctx) ==
    Bind(params_for_initialization(h, self, ctx), LAMBDA init_attrs :
    IF init_attrs.x # XNone THEN Res(init_attrs.h, _SENTRY, init_attrs.x)
    ELSE
    Bind(IF self.dest # None
         THEN populate_instance(init_attrs.h, self, self.dest, init_attrs.v)
         ELSE instantiate(init_attrs.h, self, init_attrs.v), LAMBDA made :
    IF made.x # XNone THEN Res(made.h, _SENTRY, made.x)
    ELSE IF self.dest = None /\ (made.v = None \/ made.v = _SENTRY)
    THEN Res(made.h, made.v, XNone)
    ELSE
    Bind(params_for_population(made.h, self, ctx, made.v), LAMBDA pop_parms :
    IF pop_parms.x # XNone THEN Res(pop_parms.h, _SENTRY, pop_parms.x)
    ELSE
    Bind(populate_instance(pop_parms.h, self, made.v, pop_parms.v), LAMBDA populated :
    IF populated.x # XNone \/ self.cls.post_convert = "absent" THEN populated
    ELSE post_convert(populated.h, self, made.v)))))

\* convert() of an instance, entered with the context old_context current:
\* the body runs in the updated context, which the exit restores
convert(h, self, old_context) ==
    instance_convert(h, self,
        _updated_context(old_context, new_built_context(self.cls), self._context))

----------------------------------------------------------------------------
(* The calls of the model: Converter.convert(source, context=..., dest=...) *)
(* on a class cls, with the heap h0 holding the dicts of the arguments.    *)

Call(family, cls, source, context, dest, h0) ==
    [ family |-> family, cls |-> cls, source |-> source, context |-> context,
      dest |-> dest, h0 |-> h0, extra_attrs |-> <<>>, count |-> 1,
      \* of a call of register_converter_for_name or unregister_converter
      converter |-> "", name |-> "" ]

\* sequences over S of length at most n
RECURSIVE SeqsUpTo(_, _)
SeqsUpTo(S, n) ==
    IF n = 0 THEN {<<>>}
    ELSE LET shorter == SeqsUpTo(S, n - 1)
         IN  shorter \cup {Append(q, x) : q \in {r \in shorter : Len(r) = n - 1}, x \in S}

Ints == {IntV(i) : i \in 0..MaxInt}

\* "resolve": one rule ('a', 'b', {opts}) on a source {'b': v, 'c': w}
ResolveValues ==
    {_SENTRY, None, StrV(0), StrV(1), False, ListV(<<>>), ListV(<<IntV(1)>>)} \cup Ints

ResolveOpts ==
    {[NoOpts EXCEPT !.required = r, !.default = d, !.pluralize = p,
                    !._kwarg_override = o] :
        r \in {"False", "True", "not_none", "is_str"},
        d \in {_SENTRY, StrV(2), Callable(3)},
        p \in BOOLEAN, o \in {None, StrV(1)}}
    \cup {[NoOpts EXCEPT !.getter = "get_c", !.default = d] :
            d \in {_SENTRY, StrV(2)}}

ResolveCalls ==
    {Call("resolve",
          DictConverter("ResolveConverter", <<Raw3("a", from, opts)>>,
                        DefaultConverterOptions),
          Ref(1), [EmptyContext EXCEPT !["b"] = cv], None,
          <<[EmptyDict EXCEPT !["b"] = v, !["c"] = w]>>) :
        from \in {"b"}, opts \in ResolveOpts, v \in ResolveValues,
        w \in {_SENTRY, IntV(1)}, cv \in {_SENTRY, None, IntV(2)}}
    \cup
    {Call("resolve",
          DictConverter("ResolveConverter", <<Raw3("a", NOS, opts)>>,
                        DefaultConverterOptions),
          Ref(1), EmptyContext, None, <<[EmptyDict EXCEPT !["b"] = v]>>) :
        opts \in {o \in ResolveOpts : o.getter = "absent" /\ ~o.pluralize},
        v \in {_SENTRY, IntV(1)}}

\* "bare": a rule list of bare attribute names, dict to dict
BareValues == {_SENTRY, None, StrV(0), IntV(1)}

BareOptions ==
    { DefaultConverterOptions,
      [DefaultConverterOptions EXCEPT !.include_nones = FALSE],
      [DefaultConverterOptions EXCEPT !.include_empty_strings = FALSE],
      [DefaultConverterOptions EXCEPT !.convert_nones_to_blanks = TRUE] }

BareCalls ==
    {Call("bare",
          DictConverter("BareConverter", [i \in 1..Len(names) |-> RawStr(names[i])],
                        options),
          Ref(1), context, None,
          <<[EmptyDict EXCEPT !["a"] = va, !["b"] = vb, !["self"] = vs]>>) :
        names \in SeqsUpTo({"a", "b", "self"}, MaxRules), options \in BareOptions,
        va \in BareValues, vb \in BareValues, vs \in BareValues,
        context \in {EmptyContext, [EmptyContext EXCEPT !["a"] = IntV(2)]}}

\* "map": one rule ('a', {opts}) with a function as converter, on a source
\* {'a': an int or a list of ints}; a filter is given only where it is
\* applied to ints
MapOpts ==
    {[NoOpts EXCEPT !.converter = c, !.filter = f, !.map = m] :
        c \in {"absent", "double"}, f \in {"absent", "odd"}, m \in BOOLEAN}

MapValues(opts) ==
    {v \in Ints \cup {ListV(q) : q \in SeqsUpTo(Ints, MaxList)} :
        opts.filter = "absent" \/ opts.map \/ v.k = "int"}

MapCalls ==
    UNION {
      {Call("map",
            DictConverter("MapConverter", <<Raw3("a", "a", opts)>>,
                          [DefaultConverterOptions EXCEPT !.merge_all = all]),
            Ref(1), EmptyContext, None, <<[EmptyDict EXCEPT !["a"] = v]>>) :
          all \in BOOLEAN, v \in MapValues(opts)} :
      opts \in MapOpts}

\* "merge": one rule ('a', {'converter': SubConverter, ...}) on a source
\* whose 'a' is a dict or a list of dicts, into no destination, into a
\* destination without 'a', or into one whose 'a' is of the same shape
NestedSources ==
    { [EmptyDict EXCEPT !["a"] = IntV(1), !["b"] = IntV(1)],
      [EmptyDict EXCEPT !["b"] = IntV(1)] }

NestedDests ==
    { [EmptyDict EXCEPT !["a"] = IntV(2), !["c"] = IntV(2)],
      [EmptyDict EXCEPT !["c"] = IntV(2)] }

\* references to the dicts first + 1 .. first + n
Refs(first, n) == [i \in 1..n |-> Ref(first + i)]

\* the heap of a merge call: the source (1), its nested dicts, the
\* destination and its nested dicts
MergeHeap(is_list, srcs, has_dest, has_attr, dsts) ==
    LET n == Len(srcs)
        source == [EmptyDict EXCEPT !["a"] =
                      IF is_list THEN ListV(Refs(1, n)) ELSE Ref(2)]
        dest == [EmptyDict EXCEPT !["a"] =
                    IF ~has_attr THEN _SENTRY
                    ELSE IF is_list THEN ListV(Refs(n + 2, Len(dsts)))
                    ELSE Ref(n + 3)]
    IN  <<source>> \o srcs \o (IF has_dest THEN <<dest>> \o dsts ELSE <<>>)

MergeOpts ==
    {[NoOpts EXCEPT !.converter = "SubConverter", !.merge = m] :
        m \in {"absent", "True", "False"}}

MergeCall(opts, all, is_list, srcs, has_dest, has_attr, dsts) ==
    Call("merge",
         DictConverter("TopConverter", <<Raw3("a", "a", opts)>>,
                       [DefaultConverterOptions EXCEPT !.merge_all = all]),
         Ref(1), EmptyContext,
         IF has_dest THEN Ref(Len(srcs) + 2) ELSE None,
         MergeHeap(is_list, srcs, has_dest, has_attr, dsts))

MergeCalls ==
    {MergeCall(opts, all, TRUE, srcs, TRUE, TRUE, dsts) :
        opts \in MergeOpts, all \in BOOLEAN,
        srcs \in SeqsUpTo(NestedSources, MaxList),
        dsts \in SeqsUpTo(NestedDests, MaxList)}
    \cup
    {MergeCall(opts, all, FALSE, <<src>>, TRUE, TRUE, <<dst>>) :
        opts \in MergeOpts, all \in BOOLEAN,
        src \in NestedSources, dst \in NestedDests}
    \cup
    {MergeCall(opts, all, TRUE, srcs, has_dest, FALSE, <<>>) :
        opts \in MergeOpts, all \in BOOLEAN,
        srcs \in SeqsUpTo(NestedSources, MaxList), has_dest \in BOOLEAN}
    \cup
    {MergeCall(opts, all, FALSE, <<src>>, has_dest, FALSE, <<>>) :
        opts \in MergeOpts, all \in BOOLEAN,
        src \in NestedSources, has_dest \in BOOLEAN}

\* "sort": one rule ('a', {'filter': ..., 'sort': ...}) on a source
\* {'a': a list of ints}, as test_converter_sort
SortOpts ==
    {[NoOpts EXCEPT !.filter = f, !.sort = st] :
        f \in {"absent", "ge1", "odd"},
        st \in {"False", "True", "neg", "parity", "1"}}

SortCalls ==
    {Call("sort",
          DictConverter("SortConverter", <<Raw3("a", "a", opts)>>,
                        DefaultConverterOptions),
          Ref(1), EmptyContext, None, <<[EmptyDict EXCEPT !["a"] = ListV(q)]>>) :
        opts \in SortOpts, q \in SeqsUpTo(Ints, MaxSort)}

\* "forms": one rule for 'a' in one of the forms the docstring of
\* conversions calls equivalent, on a source {'a': value}
EquivalentForms ==
    { RawStr("a"), Raw1("a"), Raw2X("a", Callable(1)), Raw2Opts("a", NoOpts),
      Raw2("a", "a"), Raw3("a", "a", NoOpts) }

FormValues ==
    { _SENTRY, None, StrV(0), IntV(1), ListV(<<>>), ListV(<<IntV(1), IntV(2)>>),
      TupleV(<<IntV(1), IntV(2)>>) }

FormCalls ==
    {Call("forms", DictConverter("FormConverter", <<rule>>, options),
          Ref(1), EmptyContext, None, <<[EmptyDict EXCEPT !["a"] = v]>>) :
        rule \in EquivalentForms, options \in BareOptions, v \in FormValues}

\* "norm": a last rule in each of the shapes normalize_single_copy_attr
\* tells apart, alone or after the rule 'b', on a source {'b': 1}, with or
\* without a destination {'c': 2}; count is what the counter yields next
NosDefaults == {IntV(1), StrV(1), Callable(1), None, ListV(<<>>)}

NormOpts ==
    {NoOpts} \cup {[NoOpts EXCEPT !.default = d] : d \in {StrV(1), None, ListV(<<>>), True}}

NormRules ==
    {Raw3X(to_attr, NOS, x) : to_attr \in {"", "a"}, x \in NosDefaults}
        \cup {Raw3(to_attr, from_attr, opts) :
                 to_attr \in {"", "a"}, from_attr \in {NOS, "b"}, opts \in NormOpts}
        \cup {Raw3X(to_attr, "b", x) :
                 to_attr \in {"", "a"}, x \in {Callable(2), IntV(1), None}}
        \cup {Raw2X("a", x) : x \in {Callable(2), IntV(1), None}}
        \cup {Raw2Opts("a", opts) : opts \in NormOpts}
        \cup {RawBad(form) : form \in {"bad_to", "bad_from", "bad_len", "other"}}
        \cup {RawCallable(Callable(2)), RawStr("a"), Raw1("a"), Raw2("a", "b"),
              Raw2("a", NOS), Raw2("", "b")}

NormCalls ==
    {[Call("norm", DictConverter("NormConverter", conversions, DefaultConverterOptions),
           Ref(1), EmptyContext, dest,
           <<[EmptyDict EXCEPT !["b"] = IntV(1)], [EmptyDict EXCEPT !["c"] = IntV(2)]>>)
        EXCEPT !.count = count] :
        conversions \in {<<rule>> : rule \in NormRules}
                            \cup {<<RawStr("b"), rule>> : rule \in NormRules},
        dest \in {None, Ref(2)}, count \in 1..2}

\* "extra": cls(source, context=..., k=v, ...).convert() with one rule for
\* 'a' on a source {'a': 1 or absent, 'b': {'a': 1, 'b': 1}}: the rule is
\* bare, has a default, a function or SubConverter as its converter (the
\* last one reads 'b')
ExtraValues == {None, StrV(0), IntV(0), IntV(2), StrV(2)}

\* the keyword arguments: up to two, of different names
ExtraAttrs ==
    {<<>>} \cup {<<[k |-> k, v |-> v]>> : k \in {"a", "b"}, v \in ExtraValues}
        \cup {<<[k |-> ks[1], v |-> v1], [k |-> ks[2], v |-> v2]>> :
                 ks \in {<<"a", "b">>, <<"b", "a">>},
                 v1 \in ExtraValues, v2 \in ExtraValues}

ExtraRules ==
    {Raw3("a", "a", opts) :
        opts \in {NoOpts, [NoOpts EXCEPT !.default = StrV(1)],
                  [NoOpts EXCEPT !.converter = "double"]}}
        \cup {Raw3("a", "b", [NoOpts EXCEPT !.converter = "SubConverter"])}

ExtraCalls ==
    {[Call("extra", DictConverter("ExtraConverter", <<rule>>, DefaultConverterOptions),
           Ref(1), context, None,
           <<[EmptyDict EXCEPT !["a"] = va, !["b"] = Ref(2)],
             [EmptyDict EXCEPT !["a"] = IntV(1), !["b"] = IntV(1)]>>)
        EXCEPT !.extra_attrs = extra_attrs] :
        rule \in ExtraRules, context \in {EmptyContext, [EmptyContext EXCEPT !["a"] = IntV(2)]},
        va \in {_SENTRY, IntV(1)}, extra_attrs \in ExtraAttrs}

\* "update": rules for 'a' and 'b', as initialization or as population
\* attributes, on a source {'a': ..., 'b': ...}, with the destination
\* {'a': 2, 'c': 2} or with none
UpdateOptions ==
    {[DefaultConverterOptions EXCEPT !.pass_attrs_to_init = p, !.copy_only = c] :
        p \in BOOLEAN, c \in BOOLEAN}

UpdateRules ==
    { <<RawStr("a")>>,
      <<RawStr("a"), Raw2Opts("b", [NoOpts EXCEPT !.initialization_attribute = "True"])>>,
      <<Raw2Opts("a", [NoOpts EXCEPT !.initialization_attribute = "False"]),
        RawStr("b")>> }

UpdateValues == {_SENTRY, None, IntV(1)}

UpdateCalls ==
    {Call("update", DictConverter("UpdateConverter", conversions, options),
          Ref(1), EmptyContext, dest,
          <<[EmptyDict EXCEPT !["a"] = va, !["b"] = vb],
            [EmptyDict EXCEPT !["a"] = IntV(2), !["c"] = IntV(2)]>>) :
        conversions \in UpdateRules, options \in UpdateOptions,
        dest \in {None, Ref(2)}, va \in UpdateValues, vb \in UpdateValues}

\* "types": a class with from_class and to_class None, a class or a Union,
\* constructed on None, a dict, an int, a bool or a str
TypeDeclarations ==
    [ from_class : {{}, {"dict"}, {"int"}, {"object"}, {"dict", "int"}, {"str", "int"},
                    {"dict", "object"}},
      to_class : {{}, {"dict"}, {"dict", "int"}} ]

TypeCalls ==
    {Call("types",
          [DictConverter("TypedConverter", <<RawStr("a")>>, DefaultConverterOptions)
              EXCEPT !.from_class = decl.from_class, !.to_class = decl.to_class],
          source, EmptyContext, dest,
          <<[EmptyDict EXCEPT !["a"] = IntV(1)], [EmptyDict EXCEPT !["c"] = IntV(2)]>>) :
        decl \in TypeDeclarations,
        source \in {None, Ref(1), IntV(1), True, StrV(1)}, dest \in {None, Ref(2)}}

\* "final": one rule ('a', {'converter': ..., 'max_len': ..., 'sort': ...}) of
\* a class with or without the washer of str and with each combination of
\* include_nones, convert_nones_to_blanks and include_empty_strings, on a
\* source {'a': None, a str or a list}
FinalOptions ==
    {[DefaultConverterOptions EXCEPT !.include_nones = n,
                                     !.convert_nones_to_blanks = b,
                                     !.include_empty_strings = e] :
        n \in BOOLEAN, b \in BOOLEAN, e \in BOOLEAN}

FinalOpts ==
    {[NoOpts EXCEPT !.converter = c, !.max_len = m, !.sort = st] :
        c \in {"absent", "to_none", "to_blank"}, m \in {None, IntV(0), IntV(1)},
        st \in {"False", "True"}}

FinalValues == {None, StrV(0), StrV(1), StrV(2), ListV(<<IntV(2), IntV(1)>>)}

FinalCalls ==
    {Call("final",
          [DictConverter("FinalConverter", <<Raw3("a", "a", opts)>>, options)
              EXCEPT !.converter_washers = washers],
          Ref(1), EmptyContext, None, <<[EmptyDict EXCEPT !["a"] = va]>>) :
        opts \in FinalOpts, options \in FinalOptions, washers \in {"absent", "tail"},
        va \in FinalValues}

Calls ==
    ResolveCalls \cup BareCalls \cup MapCalls \cup MergeCalls \cup SortCalls
        \cup FormCalls \cup NormCalls \cup ExtraCalls \cup UpdateCalls
        \cup TypeCalls \cup FinalCalls

----------------------------------------------------------------------------
(* Spec: a call is made, and Convert runs it to its end.                   *)

Pending == [done |-> FALSE, v |-> _SENTRY, x |-> XNone, attrs |-> <<>>, count |-> 0]

\* no conversion was left by the last step
NotFinished == [how |-> "", entered |-> EmptyContext]

\* the context machine at rest
ContextIdle ==
    /\ slot = EmptyContext
    /\ stack = <<>>
    /\ raising = FALSE
    /\ finished = NotFinished

\* no instance_convert is under way
NotRunning ==
    [ pc |-> "idle", self |-> None, context |-> EmptyContext, init_attrs |-> <<>>,
      inst |-> _SENTRY, pop_parms |-> <<>>, trace |-> <<>> ]

Threads == {1, 2}

\* no thread has entered a conversion: the attribute context of the
\* thread-local object is unset in every thread (read as {}), and no thread
\* has a conversion in progress
NoThreads == [t \in Threads |-> [context |-> EmptyContext, frames |-> <<>>]]

OthersIdle ==
    /\ results = <<>>
    /\ running = NotRunning
    /\ threads = NoThreads

Init ==
    /\ call \in Calls
    /\ heap = call.h0
    /\ outcome = Pending
    /\ ContextIdle
    /\ named_converters = InitialRegistry
    /\ OthersIdle

\* cls.convert(source, context=context, dest=dest), called outside any
\* conversion: cls(source, ...).convert()
RunCall(c) ==
    Bind(Construct(c.cls, c.source, c.context, c.dest, c.extra_attrs, c.count),
         LAMBDA made :
        IF made.x # XNone THEN Res(c.h0, _SENTRY, made.x)
        ELSE convert(c.h0, made.self, EmptyContext))

\* the instance's _normalized_attrs after cls(source, ...), <<>> when
\* __init__ raised, and what the counter _COUNTER yields next
Made(c) ==
    Bind(Construct(c.cls, c.source, c.context, c.dest, c.extra_attrs, c.count),
         LAMBDA made :
        [attrs |-> IF made.x = XNone THEN made.self._normalized_attrs ELSE <<>>,
         count |-> made.count])

Convert ==
    /\ ~outcome.done
    /\ LET r == RunCall(call)
       IN  /\ heap' = r.h
           /\ outcome' = [done |-> TRUE, v |-> r.v, x |-> r.x,
                          attrs |-> Made(call).attrs, count |-> Made(call).count]
    /\ UNCHANGED <<call, slot, stack, raising, finished, named_converters>>
    /\ UNCHANGED others

Next == Convert

Spec == Init /\ [][Next]_vars

----------------------------------------------------------------------------
(* SpecContext: the context slot while conversions are entered and left.   *)
(* A conversion is entered from the body of the one in progress (a         *)
(* sub-converter of a rule, or a converter method that calls               *)
(* OtherConverter.convert(val, context=...)) or, with nothing in progress, *)
(* from outside.  Its body may raise; the exception leaves the conversions *)
(* one by one until something catches it.                                  *)

\* a class that defines build_context, returning built
WithBuildContext(name, built) ==
    [DictConverter(name, <<RawStr("a")>>, DefaultConverterOptions)
        EXCEPT !.has_build_context = TRUE, !.built_context = built]

ContextClasses ==
    { DictConverter("PlainConverter", <<RawStr("a")>>, DefaultConverterOptions),
      WithBuildContext("BuildsA", [EmptyContext EXCEPT !["a"] = StrV(1)]),
      WithBuildContext("BuildsAB",
                       [EmptyContext EXCEPT !["a"] = StrV(2), !["b"] = StrV(2)]) }

\* the context= arguments of the calls
CallerContexts ==
    { EmptyContext,
      [EmptyContext EXCEPT !["a"] = IntV(1)],
      [EmptyContext EXCEPT !["b"] = IntV(1)],
      [EmptyContext EXCEPT !["a"] = IntV(2), !["b"] = IntV(2)] }

NoCall == Call("none", SubConverter, None, EmptyContext, None, <<>>)

InitContext ==
    /\ ContextIdle
    /\ heap = <<>>
    /\ call = NoCall
    /\ outcome = Pending
    /\ named_converters = InitialRegistry
    /\ OthersIdle

\* _updated_context without the finally: a raise leaves the context installed
ContextOnExit_no_finally(frame, current, raised) ==
    IF raised THEN current ELSE frame.old_context

\* the finally clause of _updated_context: self.context = old_context,
\* whether the body returned or raised
ContextOnExit(frame, current, raised) == frame.old_context

\* with self._updated_context(): the context is saved and the updated one
\* installed.  entered records the slot as the conversion found it.
Enter(cls, context) ==
    /\ ~raising
    /\ Len(stack) < MaxDepth
    /\ slot' = _updated_context(slot, new_built_context(cls), context)
    /\ stack' = Append(stack, [ cls |-> cls, _context |-> context,
                                old_context |-> slot, entered |-> slot ])
    /\ finished' = NotFinished
    /\ UNCHANGED <<heap, call, outcome, raising, named_converters>>
    /\ UNCHANGED others

\* __init__ or build_context() raises: nothing was installed
EnterFails ==
    /\ ~raising
    /\ Len(stack) < MaxDepth
    /\ raising' = TRUE
    /\ finished' = NotFinished
    /\ UNCHANGED <<heap, call, outcome, slot, stack, named_converters>>
    /\ UNCHANGED others

\* instance_convert returns
Return ==
    /\ ~raising
    /\ stack # <<>>
    /\ slot' = ContextOnExit(stack[Len(stack)], slot, FALSE)
    /\ stack' = SubSeq(stack, 1, Len(stack) - 1)
    /\ finished' = [how |-> "returned", entered |-> stack[Len(stack)].entered]
    /\ UNCHANGED <<heap, call, outcome, raising, named_converters>>
    /\ UNCHANGED others

\* the body of the innermost conversion raises (ValueRequired, TypeError...)
Raise ==
    /\ ~raising
    /\ stack # <<>>
    /\ raising' = TRUE
    /\ finished' = NotFinished
    /\ UNCHANGED <<heap, call, outcome, slot, stack, named_converters>>
    /\ UNCHANGED others

\* the exception leaves the innermost conversion
Unwind ==
    /\ raising
    /\ stack # <<>>
    /\ slot' = ContextOnExit(stack[Len(stack)], slot, TRUE)
    /\ stack' = SubSeq(stack, 1, Len(stack) - 1)
    /\ finished' = [how |-> "raised", entered |-> stack[Len(stack)].entered]
    /\ UNCHANGED <<heap, call, outcome, raising, named_converters>>
    /\ UNCHANGED others

\* the caller, or code of an enclosing conversion, catches the exception
Catch ==
    /\ raising
    /\ raising' = FALSE
    /\ finished' = NotFinished
    /\ UNCHANGED <<heap, call, outcome, slot, stack, named_converters>>
    /\ UNCHANGED others

NextContext ==
    \/ \E cls \in ContextClasses, context \in CallerContexts : Enter(cls, context)
    \/ EnterFails
    \/ Return
    \/ Raise
    \/ Unwind
    \/ Catch

SpecContext == InitContext /\ [][NextContext]_vars

----------------------------------------------------------------------------
(* SpecRegistry: converters are registered and unregistered under names,   *)
(* through any class, and conversions name them.                           *)

\* register_converter_for_name that keeps the converter a name already has
register_converter_for_name_keeps_first(cls, converter, name) ==
    IF named_converters[name] # "" THEN named_converters
    ELSE [named_converters EXCEPT
             ![name] = IF IsConverterClass(converter) THEN converter
                       ELSE AdHocConverter(converter)]

\* cls.named_converters[name] = converter, a function wrapped in a class
\* first; cls.named_converters is Converter.named_converters for every class
register_converter_for_name(cls, converter, name) ==
    [named_converters EXCEPT
        ![name] = IF IsConverterClass(converter) THEN converter
                  ELSE AdHocConverter(converter)]

\* del cls.named_converters[name]
unregister_converter(cls, name) == [named_converters EXCEPT ![name] = ""]

\* the classes the registry is reached through
RegistryClasses == {ClassNamed("DictConverter"), SubConverter}

\* what is registered: a Converter class or a function
Registrable == {"SubConverter", "double", "neg"}

\* class NamedConverter(DictConverter) with the rule ('a', {'converter': name}),
\* without or with a method a(self, val) that returns val % 2
NamedConverter(name, has_method) ==
    [DictConverter(IF has_method THEN "MethodConverter" ELSE "NamedConverter",
                   <<Raw2Opts("a", [NoOpts EXCEPT !.converter = name])>>,
                   DefaultConverterOptions)
        EXCEPT !.method = IF has_method THEN [name |-> "str:a", func |-> "parity"]
                          ELSE NoMethod,
               !.named_converters = named_converters]

\* the values of 'a' on the source; the dict is {'a': 1, 'b': 1}
NamedValues == {None, IntV(1), IntV(2), Ref(2)}

\* what a call that is no conversion returns or raises
Returns(x) == [done |-> TRUE, v |-> IF x = XNone THEN None ELSE _SENTRY, x |-> x,
               attrs |-> <<>>, count |-> 0]

RegistryCall(family, cls, converter, name) ==
    [Call(family, cls, None, EmptyContext, None, <<>>)
        EXCEPT !.converter = converter, !.name = name]

InitRegistry ==
    /\ ContextIdle
    /\ heap = <<>>
    /\ call = NoCall
    /\ outcome = Pending
    /\ named_converters = InitialRegistry
    /\ OthersIdle

Register(cls, converter, name) ==
    /\ named_converters' = register_converter_for_name(cls, converter, name)
    /\ call' = RegistryCall("register", cls, converter, name)
    /\ heap' = <<>>
    /\ outcome' = Returns(XNone)
    /\ UNCHANGED <<slot, stack, raising, finished>>
    /\ UNCHANGED others

Unregister(cls, name) ==
    /\ named_converters[name] # ""
    /\ named_converters' = unregister_converter(cls, name)
    /\ call' = RegistryCall("unregister", cls, "", name)
    /\ heap' = <<>>
    /\ outcome' = Returns(XNone)
    /\ UNCHANGED <<slot, stack, raising, finished>>
    /\ UNCHANGED others

\* del of a key the dict does not hold
UnregisterMissing(cls, name) ==
    /\ named_converters[name] = ""
    /\ call' = RegistryCall("unregister", cls, "", name)
    /\ heap' = <<>>
    /\ outcome' = Returns(XKeyError)
    /\ UNCHANGED <<slot, stack, raising, finished, named_converters>>
    /\ UNCHANGED others

\* cls.convert({'a': val}); the functions of the model are applied to
\* numbers only
ConvertNamed(name, has_method, val) ==
    /\ val.k = "ref" =>
           ~IsAdHocConverter(named_converters[name]) /\ ~(has_method /\ name = "str:a")
    /\ call' = [Call("named", NamedConverter(name, has_method), Ref(1), EmptyContext,
                      None, <<[EmptyDict EXCEPT !["a"] = val],
                              [EmptyDict EXCEPT !["a"] = IntV(1), !["b"] = IntV(1)]>>)
                   EXCEPT !.name = name]
    /\ LET r == RunCall(call')
       IN  /\ heap' = r.h
           /\ outcome' = [done |-> TRUE, v |-> r.v, x |-> r.x,
                          attrs |-> Made(call').attrs, count |-> Made(call').count]
    /\ UNCHANGED <<slot, stack, raising, finished, named_converters>>
    /\ UNCHANGED others

NextRegistry ==
    \/ \E cls \in RegistryClasses, converter \in Registrable, name \in ConverterNames :
           Register(cls, converter, name)
    \/ \E cls \in RegistryClasses, name \in ConverterNames : Unregister(cls, name)
    \/ \E cls \in RegistryClasses, name \in ConverterNames : UnregisterMissing(cls, name)
    \/ \E name \in ConverterNames, has_method \in BOOLEAN, val \in NamedValues :
           ConvertNamed(name, has_method, val)

SpecRegistry == InitRegistry /\ [][NextRegistry]_vars

----------------------------------------------------------------------------
(* SpecSeries: conversions by one converter class, one after the other, in *)
(* one process: the heap keeps what the earlier conversions made, and the  *)
(* counter _COUNTER goes on from where they left it.                       *)

MaxSeries == 3

\* DeepSettingConverter of the tests, with the keys of the model: 'a' is a
\* dict made by the default, and the values of the source are set in it
DeepSettingConverter ==
    DictConverter("DeepSettingConverter",
                  << Raw2Opts("a", [NoOpts EXCEPT !.default = dict]),
                     Raw2("a.b", "b"),
                     Raw2("a.c", "c") >>,
                  DefaultConverterOptions)

\* the same, two levels deep
DeeperSettingConverter ==
    DictConverter("DeeperSettingConverter",
                  << Raw2Opts("a", [NoOpts EXCEPT !.default = dict]),
                     Raw2Opts("a.b", [NoOpts EXCEPT !.default = dict]),
                     Raw2("a.b.c", "c") >>,
                  DefaultConverterOptions)

\* a class whose rule for 'a' holds an options dict of its own:
\* conversions = [('a', 'b', {'default': 0}), 'c']
OverridableConverter ==
    DictConverter("OverridableConverter",
                  << Raw3("a", "b", [NoOpts EXCEPT !.default = IntV(0)]),
                     RawStr("c") >>,
                  DefaultConverterOptions)

\* a class with a rule that names no destination:
\* conversions = [(None, 'b', {}), 'c']
UnnamedConverter ==
    DictConverter("UnnamedConverter",
                  << Raw3("", "b", NoOpts), RawStr("c") >>,
                  DefaultConverterOptions)

SeriesClasses == {DeepSettingConverter, DeeperSettingConverter,
                  OverridableConverter, UnnamedConverter}

\* the class as it was declared
Declared(cls) == CHOOSE d \in SeriesClasses : d.name = cls.name

\* the mutant of conversions_left: converter_attrs is self.conversions
\* itself.  normalize_single_copy_attr returns the options dict of a rule
\* (to, opts) or (to, from, opts) itself, so that the loop over extra_attrs
\* writes '_kwarg_override' into the dict the class holds.
RECURSIVE conversions_left_not_cloned(_, _)
conversions_left_not_cloned(cls, extra_attrs) ==
    IF extra_attrs = <<>> THEN cls.conversions
    ELSE LET k == Head(extra_attrs).k
             v == Head(extra_attrs).v
             found == {i \in 1..Len(cls.conversions) : cls.conversions[i].f0 = k}
             first == CHOOSE i \in found : \A j \in found : i <= j
         IN  conversions_left_not_cloned(
                 IF found # {} /\ cls.conversions[first].form \in {"to_opts", "to_from_opts"}
                 THEN [cls EXCEPT !.conversions[first].f2._kwarg_override = v]
                 ELSE cls,
                 Tail(extra_attrs))

\* the class attribute `conversions` after cls(source, **extra_attrs):
\* dynamic_copy_attrs normalizes and writes into clone_deep(conversions), a
\* copy that shares no list and no dict with the class, so the class keeps
\* the rules it was declared with
conversions_left(cls, extra_attrs) == cls.conversions

\* the sources of a series: {}, {'b': 1}, {'c': 2}, {'b': 1, 'c': 2}
SeriesSources ==
    {[EmptyDict EXCEPT !["b"] = vb, !["c"] = vc] :
        vb \in {_SENTRY, IntV(1)}, vc \in {_SENTRY, IntV(2)}}

\* the keyword arguments of a call of a series
SeriesExtraAttrs(cls) ==
    IF cls.name = "OverridableConverter"
    THEN {<<>>, <<[k |-> "a", v |-> IntV(2)]>>}
    ELSE {<<>>}

\* no conversion yet: call holds the class of the series
InitSeries ==
    /\ call \in {Call("series", cls, None, EmptyContext, None, <<>>) :
                    cls \in SeriesClasses}
    /\ heap = <<>>
    /\ outcome = Pending
    /\ ContextIdle
    /\ named_converters = InitialRegistry
    /\ OthersIdle

\* the next call of the series: a new source dict, the heap as it is and
\* the counter as the calls before left it
NextCall(source, extra_attrs) ==
    [Call("series", call.cls, Ref(Len(heap) + 1), EmptyContext, None,
          Append(heap, source))
        EXCEPT !.extra_attrs = extra_attrs,
               !.count = IF outcome.done THEN outcome.count ELSE 1]

\* cls.convert(source, **extra_attrs), the caller keeping the result
ConvertNext(source, extra_attrs) ==
    /\ Len(results) < MaxSeries
    /\ LET c == NextCall(source, extra_attrs)
           r == RunCall(c)
       IN  /\ call' = [c EXCEPT !.cls.conversions =
                                    conversions_left(call.cls, extra_attrs)]
           /\ heap' = r.h
           /\ outcome' = [done |-> TRUE, v |-> r.v, x |-> r.x,
                          attrs |-> Made(c).attrs, count |-> Made(c).count]
           /\ results' = Append(results, [source |-> c.source,
                                          extra_attrs |-> extra_attrs,
                                          v |-> r.v, x |-> r.x])
    /\ UNCHANGED <<slot, stack, raising, finished, named_converters, running, threads>>

NextSeries ==
    \E source \in SeriesSources :
        \E extra_attrs \in SeriesExtraAttrs(call.cls) : ConvertNext(source, extra_attrs)

SpecSeries == InitSeries /\ [][NextSeries]_vars

----------------------------------------------------------------------------
(* SpecLifecycle: one conversion, statement by statement of                *)
(* instance_convert.  running.pc names the statement that runs next,       *)
(* running.trace the statements that have run.                             *)

\* a class with the initialization attribute 'a' and the population
\* attribute 'b', on a source {'a': ..., 'b': ...}
LifecycleClasses ==
    {[DictConverter("LifecycleConverter",
                    << Raw2Opts("a", [NoOpts EXCEPT !.initialization_attribute = "True",
                                                    !.required = ra]),
                       Raw2Opts("b", [NoOpts EXCEPT !.required = rb]) >>,
                    DefaultConverterOptions)
        EXCEPT !.instantiate = i, !.post_convert = p] :
        ra \in {"False", "True"}, rb \in {"False", "True"},
        i \in {"inherited", "None", "_SENTRY"}, p \in {"absent", "stamp", "replace"}}

LifecycleCalls ==
    {Call("lifecycle", cls, Ref(1), EmptyContext, dest,
          <<[EmptyDict EXCEPT !["a"] = va, !["b"] = vb],
            [EmptyDict EXCEPT !["c"] = IntV(2)]>>) :
        cls \in LifecycleClasses, dest \in {None, Ref(2)},
        va \in {_SENTRY, IntV(1)}, vb \in {_SENTRY, IntV(2)}}

InitLifecycle ==
    /\ call \in LifecycleCalls
    /\ heap = call.h0
    /\ outcome = Pending
    /\ ContextIdle
    /\ named_converters = InitialRegistry
    /\ OthersIdle

\* instance_convert that goes on whatever instantiate returned
after_instantiate_goes_on(self, inst) == "params_for_population"

\* the statement after inst = self.instantiate(init_attrs) or
\* inst = self.populate_instance(self.dest, init_attrs)
after_instantiate(self, inst) ==
    IF self.dest = None /\ (inst = None \/ inst = _SENTRY) THEN "return"
    ELSE "params_for_population"

\* the statement r has run: the heap is as it left it, and an exception
\* ends the conversion
Ran(statement, r, next) ==
    /\ heap' = r.h
    /\ IF r.x # XNone
       THEN /\ running' = [running EXCEPT !.pc = "raised",
                                          !.trace = Append(@, statement)]
            /\ outcome' = [outcome EXCEPT !.done = TRUE, !.x = r.x]
       ELSE /\ running' = next
            /\ outcome' = outcome
    /\ UNCHANGED <<call, slot, stack, raising, finished, named_converters,
                   results, threads>>

\* cls(source, dest=dest) and the entry of convert()
Begin ==
    /\ running.pc = "idle"
    /\ ~outcome.done
    /\ LET made == Construct(call.cls, call.source, call.context, call.dest,
                             call.extra_attrs, call.count)
       IN  Ran("__init__", Res(heap, _SENTRY, made.x),
               [running EXCEPT !.pc = "params_for_initialization",
                               !.self = made.self,
                               !.context = _updated_context(EmptyContext,
                                               new_built_context(call.cls),
                                               call.context),
                               !.trace = <<"__init__">>])

\* init_attrs = self.params_for_initialization()
ResolveInitialization ==
    /\ running.pc = "params_for_initialization"
    /\ LET r == params_for_initialization(heap, running.self, running.context)
       IN  Ran("params_for_initialization", r,
               [running EXCEPT !.pc = "instantiate", !.init_attrs = r.v,
                               !.trace = Append(@, "params_for_initialization")])

\* inst = self.populate_instance(self.dest, init_attrs) with a
\* destination, inst = self.instantiate(init_attrs) without
InstantiateOrApply ==
    /\ running.pc = "instantiate"
    /\ LET r == IF running.self.dest # None
                THEN populate_instance(heap, running.self, running.self.dest,
                                       running.init_attrs)
                ELSE instantiate(heap, running.self, running.init_attrs)
       IN  Ran("instantiate", r,
               [running EXCEPT !.pc = after_instantiate(running.self, r.v),
                               !.inst = r.v,
                               !.trace = Append(@, "instantiate")])

\* pop_parms = self.params_for_population(inst)
ResolvePopulation ==
    /\ running.pc = "params_for_population"
    /\ LET r == params_for_population(heap, running.self, running.context,
                                      running.inst)
       IN  Ran("params_for_population", r,
               [running EXCEPT !.pc = "populate_instance", !.pop_parms = r.v,
                               !.trace = Append(@, "params_for_population")])

\* self.populate_instance(inst, pop_parms)
Populate ==
    /\ running.pc = "populate_instance"
    /\ LET r == populate_instance(heap, running.self, running.inst, running.pop_parms)
       IN  Ran("populate_instance", r,
               [running EXCEPT !.pc = IF running.self.cls.post_convert = "absent"
                                      THEN "return" ELSE "post_convert",
                               !.trace = Append(@, "populate_instance")])

\* inst = post_convert(inst)
PostConvert ==
    /\ running.pc = "post_convert"
    /\ LET r == post_convert(heap, running.self, running.inst)
       IN  Ran("post_convert", r,
               [running EXCEPT !.pc = "return", !.inst = r.v,
                               !.trace = Append(@, "post_convert")])

\* return inst
ReturnInst ==
    /\ running.pc = "return"
    /\ running' = [running EXCEPT !.pc = "returned", !.trace = Append(@, "return")]
    /\ outcome' = [outcome EXCEPT !.done = TRUE, !.v = running.inst]
    /\ UNCHANGED <<heap, call, slot, stack, raising, finished, named_converters,
                   results, threads>>

NextLifecycle ==
    \/ Begin
    \/ ResolveInitialization
    \/ InstantiateOrApply
    \/ ResolvePopulation
    \/ Populate
    \/ PostConvert
    \/ ReturnInst

SpecLifecycle == InitLifecycle /\ [][NextLifecycle]_vars

----------------------------------------------------------------------------
(* SpecWiring: the single calls of Spec, on rules that reach into the      *)
(* objects around them: reverse_attr_name and destination paths.           *)

\* "reverse": one rule ('a', 'a', {'reverse_attr_name': 'c', ...}) on a
\* source whose 'a' is a dict (2), an instance (3), a list of them, or a
\* value without attributes, into no destination or into the dict 5
ReverseOpts ==
    {[NoOpts EXCEPT !.reverse_attr_name = "c", !.converter = c,
                    !.initialization_attribute = i] :
        c \in {"absent", "SubConverter", "double"}, i \in {"absent", "True"}}

ReverseChildren ==
    { _SENTRY, None, IntV(1), Ref(2), Obj(3), ListV(<<>>), ListV(<<Ref(2)>>),
      ListV(<<Obj(3), Obj(4)>>) }

ReverseCalls ==
    {Call("reverse",
          DictConverter("ReverseConverter", <<Raw3("a", "a", opts)>>,
                        [DefaultConverterOptions EXCEPT !.pass_attrs_to_init = p]),
          Ref(1), EmptyContext, dest,
          << [EmptyDict EXCEPT !["a"] = child],
             [EmptyDict EXCEPT !["b"] = IntV(1)],
             [EmptyDict EXCEPT !["b"] = IntV(1)],
             EmptyDict,
             EmptyDict >>) :
        opts \in ReverseOpts, p \in BOOLEAN, dest \in {None, Ref(5)},
        child \in ReverseChildren}

\* "deep": a rule with the destination path 'a.b' or 'a.b.c' for the
\* source's 'b', and the rule 'c', into no destination or into the dict 2,
\* whose 'a' is missing, None, a number or the dict 3, whose 'b' in turn is
\* missing, a number or the dict 4
DeepRules ==
    { <<Raw2("a.b", "b"), RawStr("c")>>,
      <<RawStr("c"), Raw2("a.b", "b")>>,
      <<Raw2("a.b.c", "b"), RawStr("c")>> }

DeepCalls ==
    {Call("deep", DictConverter("DeepConverter", conversions, DefaultConverterOptions),
          Ref(1), EmptyContext, dest,
          << [EmptyDict EXCEPT !["b"] = vb, !["c"] = vc],
             [EmptyDict EXCEPT !["a"] = node_a, !["b"] = IntV(0)],
             [EmptyDict EXCEPT !["b"] = node_b, !["a"] = IntV(0)],
             [EmptyDict EXCEPT !["a"] = IntV(0)] >>) :
        conversions \in DeepRules, dest \in {None, Ref(2)},
        vb \in {_SENTRY, IntV(1)}, vc \in {_SENTRY, IntV(2)},
        node_a \in {_SENTRY, None, IntV(1), Ref(3)},
        node_b \in {_SENTRY, IntV(2), Ref(4)}}

\* "atomic": the rules 'a' and 'b' in either order, 'b' required or with a
\* converter that may fail, 'a' an initialization attribute or not, on a
\* source {'a': ..., 'b': ...}, into no destination or into {'a': 2, 'c': 2}
AtomicRules ==
    UNION {{ <<Raw2Opts("a", oa), Raw2Opts("b", ob)>>,
             <<Raw2Opts("b", ob), Raw2Opts("a", oa)>> } :
        oa \in {[NoOpts EXCEPT !.initialization_attribute = i] : i \in {"absent", "True"}},
        ob \in {[NoOpts EXCEPT !.required = r, !.converter = c] :
                   r \in {"False", "True", "not_none"},
                   c \in {"absent", "SubConverter", "str:a"}}}

AtomicCalls ==
    {Call("atomic", DictConverter("AtomicConverter", conversions, DefaultConverterOptions),
          Ref(1), EmptyContext, dest,
          << [EmptyDict EXCEPT !["a"] = va, !["b"] = vb],
             [EmptyDict EXCEPT !["a"] = IntV(2), !["c"] = IntV(2)],
             [EmptyDict EXCEPT !["a"] = IntV(1)] >>) :
        conversions \in AtomicRules, dest \in {None, Ref(2)},
        va \in {_SENTRY, IntV(1)}, vb \in {_SENTRY, None, IntV(1), Ref(3)}}

\* "self": the rule ('self.b', 'c'), whose destination path begins with the
\* name that default_getter resolves to the source, into no destination or
\* into the dict 2
SelfCalls ==
    {Call("self", DictConverter("SelfConverter", <<Raw2("self.b", "c")>>,
                                DefaultConverterOptions),
          Ref(1), EmptyContext, dest,
          << [EmptyDict EXCEPT !["b"] = vb, !["c"] = vc],
             [EmptyDict EXCEPT !["a"] = IntV(0)] >>) :
        dest \in {None, Ref(2)},
        vb \in {_SENTRY, IntV(1)}, vc \in {_SENTRY, IntV(2)}}

WiringCalls == ReverseCalls \cup DeepCalls \cup AtomicCalls \cup SelfCalls

InitWiring ==
    /\ call \in WiringCalls
    /\ heap = call.h0
    /\ outcome = Pending
    /\ ContextIdle
    /\ named_converters = InitialRegistry
    /\ OthersIdle

SpecWiring == InitWiring /\ [][Next]_vars

----------------------------------------------------------------------------
(* SpecThreads: conversions entered and left by two threads, statement by  *)
(* statement of _updated_context, in every interleaving.                   *)
(* Converter._converter_context_local is a threading.local(): each thread  *)
(* has its own attribute context.                                          *)

\* a slot that all threads share, as an attribute of a plain object would be
context_set_shared(locals_, t, value) ==
    [u \in Threads |-> [locals_[u] EXCEPT !.context = value]]

\* the context property: getattr(_converter_context_local, 'context', {})
\* and _converter_context_local.context = value, in thread t
context_get(locals_, t) == locals_[t].context

context_set(locals_, t, value) == [locals_ EXCEPT ![t].context = value]

ThreadClasses ==
    { DictConverter("PlainConverter", <<RawStr("a")>>, DefaultConverterOptions),
      WithBuildContext("BuildsAB",
                       [EmptyContext EXCEPT !["a"] = StrV(2), !["b"] = StrV(2)]) }

ThreadContexts ==
    { [EmptyContext EXCEPT !["a"] = IntV(1)], [EmptyContext EXCEPT !["c"] = IntV(2)] }

InitThreads ==
    /\ ContextIdle
    /\ heap = <<>>
    /\ call = NoCall
    /\ outcome = Pending
    /\ named_converters = InitialRegistry
    /\ OthersIdle

\* the thread is not between two statements of _updated_context
Settled(t) ==
    IF threads[t].frames = <<>> THEN TRUE
    ELSE threads[t].frames[Len(threads[t].frames)].installed

\* thread t enters a conversion: old_context = self.context or {}
ThreadEnter(t, cls, context) ==
    /\ Settled(t)
    /\ Len(threads[t].frames) < MaxDepth
    /\ threads' = [threads EXCEPT ![t].frames =
                      Append(@, [ cls |-> cls, _context |-> context,
                                  old_context |-> context_get(threads, t),
                                  installed |-> FALSE ])]
    /\ UNCHANGED <<heap, call, outcome, slot, stack, raising, finished,
                   named_converters, results, running>>

\* self.context = {**old_context, **new_built_context, **new_context}
ThreadInstall(t) ==
    /\ ~Settled(t)
    /\ LET top == threads[t].frames[Len(threads[t].frames)]
       IN  threads' = [context_set(threads, t,
                                   _updated_context(top.old_context,
                                                    new_built_context(top.cls),
                                                    top._context))
                          EXCEPT ![t].frames[Len(threads[t].frames)].installed = TRUE]
    /\ UNCHANGED <<heap, call, outcome, slot, stack, raising, finished,
                   named_converters, results, running>>

\* the body returns or raises: finally, self.context = old_context
ThreadExit(t, raised) ==
    /\ Settled(t)
    /\ threads[t].frames # <<>>
    /\ LET top == threads[t].frames[Len(threads[t].frames)]
       IN  threads' = [context_set(threads, t,
                                   ContextOnExit(top, context_get(threads, t), raised))
                          EXCEPT ![t].frames = SubSeq(@, 1, Len(@) - 1)]
    /\ UNCHANGED <<heap, call, outcome, slot, stack, raising, finished,
                   named_converters, results, running>>

NextThreads ==
    \E t \in Threads :
        \/ \E cls \in ThreadClasses, context \in ThreadContexts :
               ThreadEnter(t, cls, context)
        \/ ThreadInstall(t)
        \/ \E raised \in BOOLEAN : ThreadExit(t, raised)

SpecThreads == InitThreads /\ [][NextThreads]_vars

----------------------------------------------------------------------------
(* What the properties read from a state of Spec.                          *)

\* the one rule of a resolve, map or merge call, and its options
TheRule == call.cls.conversions[1]

TheOpts == TheRule.f2

\* the source dict as it was passed
TheSource == call.h0[1]

\* the dict that convert returned
Returned == heap[outcome.v.n]

Succeeded == outcome.done /\ outcome.x = XNone /\ outcome.v.k = "ref"

\* what the rule's getter reads from the source
GetterValue ==
    IF TheOpts.getter = "get_c" THEN TheSource["c"]
    ELSE IF TheRule.f1 = NOS THEN _SENTRY
    ELSE TheSource[TheRule.f1]

\* the entry of the call's context under the rule's source attribute
ContextValue ==
    IF TheRule.f1 \in Keys THEN call.context[TheRule.f1] ELSE _SENTRY

\* the value obtained from the source, then from the context
RawValue == IF GetterValue # _SENTRY THEN GetterValue ELSE ContextValue

\* what the rule's default option gives
DefaultValue ==
    IF TheOpts.default.k = "callable" THEN CallDefault(TheOpts.default)
    ELSE TheOpts.default

----------------------------------------------------------------------------
(* C1.  A rule with required: True and a default, on a source that lacks   *)
(* the source attribute (no override, no context value): the conversion    *)
(* raises ValueRequired and the default is not substituted.                *)
C1_RequiredBeforeDefault ==
    ( /\ outcome.done
      /\ call.family = "resolve"
      /\ TheOpts.required = "True"
      /\ TheOpts.default # _SENTRY
      /\ TheOpts._kwarg_override = None
      /\ GetterValue = _SENTRY
      /\ ContextValue = _SENTRY )
    => outcome.x = XRequired

(* C2.  A rule with a default and no override: the resolved value is the   *)
(* default (the result of the call for a callable) exactly when the value  *)
(* obtained from the source, then from the context, is missing, None or    *)
(* ''; every other value (0, False, [] among them) is kept, wrapped in a   *)
(* list only by pluralize.                                                 *)
C2_DefaultExactlyOnMissingNoneEmpty ==
    ( /\ Succeeded
      /\ call.family = "resolve"
      /\ TheOpts.default # _SENTRY
      /\ TheOpts._kwarg_override = None )
    => IF RawValue \in {_SENTRY, None, StrV(0)}
       THEN Returned["a"] = DefaultValue
       ELSE /\ Returned["a"] # DefaultValue
            /\ Returned["a"] = IF TheOpts.pluralize /\ RawValue.k # "list"
                               THEN ListV(<<RawValue>>) ELSE RawValue

\* the source lacks the attribute, the context holds None for it, and the
\* callable default was called
C2_Witness ==
    /\ Succeeded
    /\ call.family = "resolve"
    /\ TheOpts._kwarg_override = None
    /\ TheOpts.default = Callable(3)
    /\ GetterValue = _SENTRY
    /\ ContextValue = None
    /\ Returned["a"] = StrV(3)

(* C3.  A required predicate is called with the raw value as read from the *)
(* source, before the default and before pluralize: the conversion raises  *)
(* ValueRequired "does not satisfy requirement condition" exactly when the *)
(* predicate is false of the raw value.                                    *)
C3_PredicateSeesRawValue ==
    ( /\ outcome.done
      /\ call.family = "resolve"
      /\ TheOpts.required \in {"not_none", "is_str"}
      /\ TheOpts._kwarg_override = None
      /\ RawValue # _SENTRY )
    => (outcome.x = XCondition <=> ~Predicate(TheOpts.required, RawValue))

\* the names a bare call lists
BareNames == {call.cls.conversions[i].f0 : i \in 1..Len(call.cls.conversions)}

\* the source restricted to the listed keys
Restricted == [key \in Keys |-> IF key \in BareNames THEN TheSource[key] ELSE _SENTRY]

BareIdentityCase ==
    /\ outcome.done
    /\ call.family = "bare"
    /\ call.cls.converter_options = DefaultConverterOptions
    /\ call.context = EmptyContext

(* C4, as claimed.  Bare attribute names, dict to dict, default options,   *)
(* no context: the destination is the source restricted to the listed      *)
(* keys.                                                                   *)
C4_BareNamesCopy ==
    BareIdentityCase => (Succeeded /\ Returned = Restricted)

(* C4, amended.  The same for bare names other than the getter's reserved  *)
(* name 'self' (for which the getter returns the whole source).            *)
C4_BareNamesCopyExceptSelf ==
    (BareIdentityCase /\ "self" \notin BareNames) => (Succeeded /\ Returned = Restricted)

\* a None and a '' were copied and a listed key the source lacks was omitted
C4_Witness ==
    /\ BareIdentityCase
    /\ Succeeded
    /\ BareNames = {"a", "b"}
    /\ TheSource["a"] = None
    /\ TheSource["b"] = _SENTRY
    /\ TheSource["self"] = StrV(0)
    /\ Returned = [EmptyDict EXCEPT !["a"] = None]

\* what a call gives: the exception, and the dict returned
ResultOf(c) ==
    LET r == RunCall(c)
    IN  <<r.x, IF r.x = XNone /\ r.v.k = "ref" THEN r.h[r.v.n] ELSE EmptyDict>>

Result == <<outcome.x, IF Succeeded THEN Returned ELSE EmptyDict>>

\* the call with the context's value in the place the getter reads, and
\* no context
WithContextValueOnSource ==
    [call EXCEPT !.context = EmptyContext,
                 !.h0 = <<[TheSource EXCEPT
                             ![IF TheOpts.getter = "get_c" THEN "c" ELSE "b"] =
                                 ContextValue]>>]

(* C7.  Values of the source take precedence over the context: when the    *)
(* getter returns a value, the conversion gives what it gives without any  *)
(* context; when it returns none and the context has the key, it gives     *)
(* what it gives for a source that holds the context's value.              *)
C7_SourceBeforeContext ==
    (outcome.done /\ call.family = "resolve") =>
        /\ GetterValue # _SENTRY =>
              Result = ResultOf([call EXCEPT !.context = EmptyContext])
        /\ ( /\ GetterValue = _SENTRY
             /\ ContextValue # _SENTRY
             /\ TheOpts._kwarg_override = None ) =>
              Result = ResultOf(WithContextValueOnSource)

\* source and context both hold a value, and the source's was copied
C7_Witness ==
    /\ Succeeded
    /\ call.family = "resolve"
    /\ TheOpts._kwarg_override = None
    /\ ~TheOpts.pluralize
    /\ GetterValue = IntV(0)
    /\ ContextValue = IntV(2)
    /\ Returned["a"] = IntV(0)

----------------------------------------------------------------------------
(* What the properties read from a state of SpecContext.                   *)

\* the innermost running conversion
Top == stack[Len(stack)]

\* what the innermost conversion's build_context() returned
TopBuilt ==
    IF Top.cls.has_build_context THEN Top.cls.built_context ELSE EmptyContext

Nested == Len(stack) >= 2

(* C5.  While a conversion runs (entered at any depth, or resumed after a  *)
(* nested conversion left), the current context holds for every key the    *)
(* caller-supplied value if the caller's context has the key, else the     *)
(* value of the converter's build_context() if that has the key, else the  *)
(* value the previous context had, and lacks the key if none has it.       *)
C5_ContextIsMergeOfThree ==
    stack # <<>> =>
        \A key \in Keys :
            slot[key] = IF Top._context[key] # _SENTRY THEN Top._context[key]
                        ELSE IF TopBuilt[key] # _SENTRY THEN TopBuilt[key]
                        ELSE Top.entered[key]

\* a nested conversion whose caller overrides the key its build_context()
\* sets, while the key only the enclosing conversion set stays visible
C5_Witness ==
    /\ Nested
    /\ ~raising
    /\ Top.entered = [EmptyContext EXCEPT !["b"] = IntV(1)]
    /\ TopBuilt["a"] = StrV(1)
    /\ Top._context = [EmptyContext EXCEPT !["a"] = IntV(1)]
    /\ slot = [EmptyContext EXCEPT !["a"] = IntV(1), !["b"] = IntV(1)]

(* C6.  When a conversion is left, by return or by an exception, the       *)
(* current context is the one that was current when it was entered; when   *)
(* no conversion is running the context is empty.                          *)
C6_ContextRestored ==
    /\ finished.how # "" => slot = finished.entered
    /\ stack = <<>> => slot = EmptyContext

\* an exception left a nested conversion, and the enclosing conversion has
\* its own non-empty context back
C6_Witness ==
    /\ finished.how = "raised"
    /\ stack # <<>>
    /\ slot # EmptyContext
    /\ slot = finished.entered

(* C8 as stated.  In a nested conversion, for a key the inherited context  *)
(* and the child's build_context() both have and the caller's context      *)
(* lacks, the current context holds the inherited value.                   *)
C8_InheritedBeatsBuilt ==
    Nested =>
        \A key \in Keys :
            ( /\ Top.entered[key] # _SENTRY
              /\ TopBuilt[key] # _SENTRY
              /\ Top._context[key] = _SENTRY )
            => slot[key] = Top.entered[key]

(* C8 amended.  In a nested conversion, for a key the inherited context    *)
(* and the child's build_context() both have, the current context holds    *)
(* the value of build_context(), unless the caller's context has the key,  *)
(* and then it holds the caller's value.                                   *)
C8_BuiltBeatsInherited ==
    Nested =>
        \A key \in Keys :
            ( Top.entered[key] # _SENTRY /\ TopBuilt[key] # _SENTRY )
            => slot[key] = IF Top._context[key] = _SENTRY
                           THEN TopBuilt[key] ELSE Top._context[key]

\* the enclosing conversion passed a, the child builds a, nobody passed a
\* to the child: the child sees the value it built
C8_Witness ==
    /\ Nested
    /\ Top.entered["a"] = IntV(1)
    /\ TopBuilt["a"] = StrV(1)
    /\ Top._context["a"] = _SENTRY
    /\ slot["a"] = StrV(1)

----------------------------------------------------------------------------
(* What the properties read from a state of Spec after a merge call.       *)

\* merge: true on the rule, or merge_all on the class and no merge on the rule
MergeActive ==
    IF TheOpts.merge = "absent" THEN call.cls.converter_options.merge_all
    ELSE TheOpts.merge = "True"

\* the destination as it was passed, and the values under 'a' of the
\* destination and of the source as they were passed
OldDest == call.h0[call.dest.n]

OldNested == OldDest["a"]

SourceNested == TheSource["a"]

\* old updated with the keys that SubConverter copies from new
MergedDict(old, new) ==
    [key \in Keys |-> IF key \in {"a", "b", "c"} /\ new[key] # _SENTRY
                      THEN new[key] ELSE old[key]]

\* the dict is the one passed as old_ref, updated from the dict at new_ref
MergedInPlace(now_ref, old_ref, new_ref) ==
    /\ now_ref = old_ref
    /\ heap[old_ref.n] = MergedDict(call.h0[old_ref.n], call.h0[new_ref.n])

\* the dict was created by the conversion from the dict at new_ref alone,
\* and the dict at old_ref is as it was
Replaced(now_ref, old_ref, new_ref) ==
    /\ now_ref.k = "ref"
    /\ now_ref.n > Len(call.h0)
    /\ heap[now_ref.n] = MergedDict(EmptyDict, call.h0[new_ref.n])
    /\ heap[old_ref.n] = call.h0[old_ref.n]

Min(i, j) == IF i < j THEN i ELSE j

\* a merge call into a destination that holds a nested value under 'a'
IntoNested ==
    /\ call.family = "merge"
    /\ outcome.done
    /\ call.dest # None
    /\ OldNested # _SENTRY

(* C9.  Converting with a sub-converter into a destination that holds a    *)
(* nested dict (or a list of them, which are paired with the source        *)
(* elements in order): the destination is returned; with merge active      *)
(* each paired nested dict is the same object as before, holding the keys  *)
(* of its source and, for the keys the source lacks, its previous values;  *)
(* without merge the destination refers to dicts created from the source   *)
(* alone and the previous nested dicts are unchanged.                      *)
C9_MergeUpdatesInPlace ==
    IntoNested =>
        /\ outcome.x = XNone
        /\ outcome.v = call.dest
        /\ IF SourceNested.k = "ref"
           THEN IF MergeActive
                THEN MergedInPlace(Returned["a"], OldNested, SourceNested)
                ELSE Replaced(Returned["a"], OldNested, SourceNested)
           ELSE /\ Returned["a"].k = "list"
                /\ IF MergeActive
                   THEN /\ Len(Returned["a"].e)
                             >= Min(Len(SourceNested.e), Len(OldNested.e))
                        /\ \A i \in 1..Min(Len(SourceNested.e), Len(OldNested.e)) :
                               MergedInPlace(Returned["a"].e[i], OldNested.e[i],
                                             SourceNested.e[i])
                   ELSE /\ Len(Returned["a"].e) = Len(SourceNested.e)
                        /\ \A i \in 1..Len(SourceNested.e), j \in 1..Len(OldNested.e) :
                               Replaced(Returned["a"].e[i], OldNested.e[j],
                                        SourceNested.e[i])

\* merge_all, no merge on the rule: the nested dict {a: 2, c: 2} was updated
\* from {a: 1, b: 1} to {a: 1, b: 1, c: 2} and is the same object
C9_Witness ==
    /\ IntoNested
    /\ TheOpts.merge = "absent"
    /\ MergeActive
    /\ SourceNested.k = "ref"
    /\ Returned["a"] = OldNested
    /\ call.h0[OldNested.n] = [EmptyDict EXCEPT !["a"] = IntV(2), !["c"] = IntV(2)]
    /\ heap[OldNested.n] =
           [EmptyDict EXCEPT !["a"] = IntV(1), !["b"] = IntV(1), !["c"] = IntV(2)]

----------------------------------------------------------------------------
(* What the properties read from a state of Spec after a map call.         *)

\* the value under 'a' of the source of a map call
Collection == TheSource["a"]

\* the converter of the rule; a rule with a filter alone converts with identity
Dispatched == IF TheOpts.converter = "absent" THEN "identity" ELSE TheOpts.converter

Passes(val) == TheOpts.filter = "absent" \/ Predicate(TheOpts.filter, val)

\* the elements that pass the filter, in their order
Survivors == SelectSeq(Collection.e, Passes)

\* a map call: the converter is a function and no element is paired
\* with a destination element
UnpairedDispatch ==
    (call.family = "map" /\ outcome.done /\ Collection.k = "list") =>
        /\ Succeeded
        /\ IF TheOpts.map
           THEN Returned["a"] =
                    ListV([i \in 1..Len(Survivors) |-> Function(Dispatched, Survivors[i])])
           ELSE Returned["a"] =
                    IF Passes(Collection) THEN Function(Dispatched, Collection)
                    ELSE _SENTRY

\* a merge call on a list into a destination that holds a list with no
\* more elements than the source's: every source element is converted,
\* into the destination element it is paired with when there is one
PairedDispatch ==
    ( /\ IntoNested
      /\ MergeActive
      /\ SourceNested.k = "list"
      /\ Len(OldNested.e) <= Len(SourceNested.e) ) =>
        /\ Succeeded
        /\ Returned["a"].k = "list"
        /\ Len(Returned["a"].e) = Len(SourceNested.e)
        /\ \A i \in 1..Len(SourceNested.e) :
               heap[Returned["a"].e[i].n] =
                   MergedDict(IF i <= Len(OldNested.e)
                              THEN call.h0[OldNested.e[i].n] ELSE EmptyDict,
                              call.h0[SourceNested.e[i].n])

(* C10.  When the value of a rule is a list and map is true, the result    *)
(* is the list of the converter's results for the elements that pass the   *)
(* filter, in their order, also when merge is active and the elements are  *)
(* paired with the elements of the destination's list; when map is false   *)
(* the result is the converter's result for the whole list.                *)
C10_EverySurvivorConverted == UnpairedDispatch /\ PairedDispatch

----------------------------------------------------------------------------
(* What the properties read from a state of Spec after a sort call.        *)

\* what the elements are ordered by: the int itself for sort: True, its
\* negation for lambda x: -x, its remainder for lambda x: x % 2
OrderKey(x) ==
    CASE TheOpts.sort = "neg" -> 0 - x.n
      [] TheOpts.sort = "parity" -> x.n % 2
      [] OTHER -> x.n

\* the elements of q whose key is key, in their order
WithKey(q, key) ==
    LET HasKey(x) == OrderKey(x) = key
    IN  SelectSeq(q, HasKey)

\* q holds the elements of the survivors, each as often, ordered by the
\* key, elements of equal key in their source order
SortedSurvivors(q) ==
    /\ Len(q) = Len(Survivors)
    /\ \A i \in 1..Len(q) :
           WithKey(q, OrderKey(q[i])) = WithKey(Survivors, OrderKey(q[i]))
    /\ \A i, j \in 1..Len(q) : i < j => OrderKey(q[i]) <= OrderKey(q[j])

(* C11.  A rule with a filter and a sort on a list: the destination holds  *)
(* exactly the elements that pass the filter, ordered by direct comparison *)
(* for sort: True and by the key for a callable sort (equal keys in source *)
(* order); without sort they are in source order.                          *)
C11_FilterThenSort ==
    (call.family = "sort" /\ outcome.done /\ TheOpts.sort # "1") =>
        /\ Succeeded
        /\ Returned["a"].k = "list"
        /\ IF TheOpts.sort = "False" THEN Returned["a"].e = Survivors
           ELSE SortedSurvivors(Returned["a"].e)

\* [2, 0, 1] with filter v >= 1 and sort: True gives [1, 2]
C11_Witness ==
    /\ Succeeded
    /\ call.family = "sort"
    /\ TheOpts.filter = "ge1"
    /\ TheOpts.sort = "True"
    /\ Collection = ListV(<<IntV(2), IntV(0), IntV(1)>>)
    /\ Returned["a"] = ListV(<<IntV(1), IntV(2)>>)

----------------------------------------------------------------------------
\* the call with the rule written as the bare name 'a'
AsBareName == [call EXCEPT !.cls.conversions = <<RawStr("a")>>]

\* the equivalence but for ('a', function) on a collection that is no list
FormsAgreeButOnTuples ==
    (call.family = "forms" /\ outcome.done
        /\ ~(TheRule.form = "to_x" /\ TheSource["a"].k = "tuple"))
    => Result = ResultOf(AsBareName)

(* C12.  The raw rule forms 'a', ('a',), ('a', lambda x: x), ('a', {}),    *)
(* ('a', 'a') and ('a', 'a', {}) are equivalent: on every source a         *)
(* converter gives what the converter with the rule 'a' gives.             *)
C12_FormsEquivalent ==
    (call.family = "forms" /\ outcome.done) => Result = ResultOf(AsBareName)

----------------------------------------------------------------------------
(* Rule normalization, observed on the rules the instance holds after       *)
(* construction.                                                           *)

\* the rule under scrutiny: the last one of the class
NormRule == call.cls.conversions[Len(call.cls.conversions)]

\* what the instance holds for it
NormAttr == outcome.attrs[Len(call.cls.conversions)]

Constructed == outcome.done /\ Len(outcome.attrs) = Len(call.cls.conversions)

\* construction raised a TypeError: the instance holds nothing, nothing was
\* returned
FailedWithTypeError ==
    outcome.done /\ outcome.x = XTypeError /\ outcome.attrs = <<>> /\ outcome.v = _SENTRY

\* a 3-tuple whose second element is NOS
NosForm ==
    /\ call.family = "norm"
    /\ outcome.done
    /\ NormRule.form \in {"to_from_x", "to_from_opts"}
    /\ NormRule.f1 = NOS

ThirdElement == IF NormRule.form = "to_from_opts" THEN DictV ELSE NormRule.x

FreshOrDst == IF NormRule.f0 = "" THEN NotOnDest(call.count) ELSE NormRule.f0

Drawn == IF NormRule.f0 = "" THEN call.count + 1 ELSE call.count

\* the rule was normalized to (dst or fresh name, NOS, opts), or the
\* construction failed on a default that is no callable, number or str
NormalizedAs(opts) ==
    IF DefaultIsAllowed(opts.default)
    THEN /\ Constructed
         /\ NormAttr = [to |-> FreshOrDst, from |-> NOS, opts |-> opts]
         /\ outcome.count = Drawn
    ELSE FailedWithTypeError

(* C13 as stated: (dst_or_null, NOS, X) normalizes to (dst or a fresh      *)
(* name, NOS, {default: X}) for every third element X, an options mapping  *)
(* included.                                                               *)
C13_NosDefaultForEveryX ==
    NosForm => NormalizedAs([NoOpts EXCEPT !.default = ThirdElement])

(* C13. A 3-element rule (dst_or_null, NOS, X) normalizes to (dst or a     *)
(* fresh unique name, NOS, {default: X}) for every X that is not a         *)
(* mapping, a callable X included (priority over the converter form); a    *)
(* mapping X is taken as the rule's options: (dst or fresh, NOS, X).       *)
C13_NosDefaultUnlessMapping ==
    NosForm =>
        IF NormRule.form = "to_from_opts" THEN NormalizedAs(NormRule.f2)
        ELSE NormalizedAs([NoOpts EXCEPT !.default = NormRule.x])

\* (None, NOS, <callable>) with the counter at 2: the rule is named
\* '-not-on-dest-2' and the callable is its default, not its converter
C13_Witness ==
    /\ NosForm
    /\ NormRule = Raw3X("", NOS, Callable(1))
    /\ call.count = 2
    /\ Succeeded
    /\ NormAttr.to = NotOnDest(2)
    /\ NormAttr.opts.converter = "absent"
    /\ Returned[NotOnDest(2)] = CallDefault(Callable(1))

\* the rule matches none of the accepted forms: a 3-tuple whose first or
\* second element is no name, or whose third element is no mapping,
\* default or converter; a 2-tuple whose second element is neither NOS, a
\* str, a callable nor a mapping; a tuple of another length; a value that
\* is no str, callable or iterable
Malformed ==
    \/ NormRule.form \in {"bad_to", "bad_from", "bad_len", "other"}
    \/ NormRule.form = "to_from_x" /\ NormRule.f1 # NOS
           /\ ~IsCallable(NormRule.x) /\ NormRule.x.k # "str"
    \/ NormRule.form = "to_x" /\ ~IsCallable(NormRule.x)

\* the rule's default option is present and is no callable, number or str
BadDefault ==
    \/ NormRule.form \in {"to_opts", "to_from_opts"}
           /\ ~DefaultIsAllowed(NormRule.f2.default)
    \/ NormRule.form = "to_from_x" /\ NormRule.f1 = NOS
           /\ ~DefaultIsAllowed(NormRule.x)

\* nothing was read, created or modified: the dicts are as they were and
\* nothing was returned
NothingDone == heap = call.h0 /\ outcome.v = _SENTRY /\ outcome.attrs = <<>>

\* every malformed rule and every bad default makes construction fail
\* before anything is done; the error is a TypeError but for a 2-tuple
\* whose second element is no mapping
MalformedFailsFast ==
    (call.family = "norm" /\ outcome.done /\ (Malformed \/ BadDefault)) =>
        /\ NothingDone
        /\ outcome.x = IF NormRule.form = "to_x" THEN XAttributeError ELSE XTypeError

(* C14. Every raw rule that matches none of the accepted forms, and every  *)
(* rule whose default is present and is no callable, number or str, makes  *)
(* construction fail with a TypeError before any getter is called and      *)
(* before a destination is created or modified.                            *)
C14_MalformedIsTypeError ==
    (call.family = "norm" /\ outcome.done /\ (Malformed \/ BadDefault)) =>
        FailedWithTypeError /\ NothingDone

\* the rules after one normalization: what dynamic_copy_attrs returns
Single == dynamic_copy_attrs(call.cls, call.extra_attrs, call.count)

\* a third normalization of the rules the instance holds
Again ==
    normalize_copy_attrs(call.cls,
        [i \in 1..Len(outcome.attrs) |-> AsRaw(outcome.attrs[i])], outcome.count)

\* the second and the third normalization changed nothing and drew no name
SameAsSingle ==
    /\ outcome.attrs = Single.attrs
    /\ outcome.count = Single.count
    /\ Again = [x |-> XNone, attrs |-> outcome.attrs, count |-> outcome.count]

\* normalization is idempotent on rules whose destination is not ''
IdempotentOnNamedDestinations ==
    (call.family = "norm" /\ Constructed
        /\ \A i \in 1..Len(Single.attrs) : Single.attrs[i].to # "")
    => SameAsSingle

(* C15. Normalizing a list of already-canonical (destination, source,      *)
(* options) triples returns the same list, with no fresh names generated:  *)
(* the double normalization of the construction equals a single one.       *)
C15_NormalizationIdempotent ==
    (call.family = "norm" /\ Constructed) => SameAsSingle

----------------------------------------------------------------------------
(* Keyword overrides.                                                      *)

\* the rule for k among the class's rules, 0 if there is none
RuleFor(k) ==
    IF \E i \in 1..Len(call.cls.conversions) : call.cls.conversions[i].f0 = k
    THEN CHOOSE i \in 1..Len(call.cls.conversions) : call.cls.conversions[i].f0 = k
    ELSE 0

\* the rule the instance holds for destination k
AttrFor(k) == outcome.attrs[CHOOSE i \in 1..Len(outcome.attrs) : outcome.attrs[i].to = k]

\* the override (k, v) is stashed on the rule for k, or else carried by an
\* appended rule (k, NOS, ...)
Stashed(k, v) ==
    /\ \E i \in 1..Len(outcome.attrs) : outcome.attrs[i].to = k
    /\ AttrFor(k).opts._kwarg_override = v
    /\ IF RuleFor(k) # 0
       THEN Cardinality({i \in 1..Len(outcome.attrs) : outcome.attrs[i].to = k}) = 1
              /\ AttrFor(k).from = call.cls.conversions[RuleFor(k)].f1
       ELSE AttrFor(k).from = NOS

\* what v gives to destination k: v itself, passed through the function
\* the rule for k names as its converter
OverrideResult(k, v) ==
    IF RuleFor(k) # 0 /\ call.cls.conversions[RuleFor(k)].f2.converter # "absent"
    THEN Function(call.cls.conversions[RuleFor(k)].f2.converter, v)
    ELSE v

\* a nested conversion took place: the sub-converter's result holds what
\* the nested source holds, whatever the overrides are
NotPropagated ==
    (TheRule.f2.converter = "SubConverter" /\ Returned["a"].k = "ref") =>
        heap[Returned["a"].n] = call.h0[2]

TakesEffect(k, v) == Stashed(k, v) /\ Returned[k] = OverrideResult(k, v)

\* every override but None takes effect; None is no override: the rule
\* for k is resolved as without it
OverridesButNoneTakeEffect ==
    (call.family = "extra" /\ Succeeded) =>
        /\ \A i \in 1..Len(call.extra_attrs) :
               call.extra_attrs[i].v # None =>
                   TakesEffect(call.extra_attrs[i].k, call.extra_attrs[i].v)
        /\ NotPropagated

(* C16. Keyword overrides take effect for every key k and every value v:   *)
(* the override is stashed on the rule with destination k, or carried by   *)
(* an appended NOS rule; after the conversion the destination's k is       *)
(* determined by v, before source, context and default; the overrides do   *)
(* not reach nested sub-converters.                                        *)
C16_OverridesTakeEffect ==
    (call.family = "extra" /\ Succeeded) =>
        /\ \A i \in 1..Len(call.extra_attrs) :
               TakesEffect(call.extra_attrs[i].k, call.extra_attrs[i].v)
        /\ NotPropagated

----------------------------------------------------------------------------
(* Update mode.                                                            *)

\* the destinations the class's rules target
Targeted == {call.cls.conversions[i].f0 : i \in 1..Len(call.cls.conversions)}

\* the supplied destination after the conversion: every targeted attribute
\* the source holds has the source's value, every other attribute the value
\* it had
Updated ==
    [key \in Keys |->
        IF key \in Targeted /\ TheSource[key] # _SENTRY THEN TheSource[key]
        ELSE call.h0[call.dest.n][key]]

(* C17. With a destination supplied no instance is constructed: every      *)
(* attribute, initialization attributes included, is set on the supplied   *)
(* destination, which is the object returned, and the attributes no rule   *)
(* targets keep their values; with copy_only and no destination the        *)
(* conversion fails with a TypeError and constructs nothing.               *)
C17_UpdateMode ==
    (call.family = "update" /\ outcome.done) =>
        IF call.dest # None
        THEN /\ outcome.x = XNone
             /\ outcome.v = call.dest
             /\ Len(heap) = Len(call.h0)
             /\ heap[1] = call.h0[1]
             /\ heap[call.dest.n] = Updated
        ELSE IF call.cls.converter_options.copy_only
        THEN outcome.x = XTypeError /\ outcome.v = _SENTRY /\ heap = call.h0
        ELSE /\ outcome.x = XNone
             /\ outcome.v = Ref(Len(call.h0) + 1)
             /\ Len(heap) = Len(call.h0) + 1

\* copy_only, attributes passed to init, a destination {'a': 2, 'c': 2}:
\* the initialization attribute 'a' is set on it, 'c' is kept
C17_Witness ==
    /\ call.family = "update" /\ outcome.done
    /\ call.dest = Ref(2)
    /\ call.cls.converter_options.copy_only
    /\ call.cls.converter_options.pass_attrs_to_init
    /\ TheSource["a"] = IntV(1)
    /\ outcome.v = Ref(2)
    /\ heap[2]["a"] = IntV(1)
    /\ heap[2]["c"] = IntV(2)

----------------------------------------------------------------------------
(* The registry of named converters.                                       *)

\* the entry a registration of converter leaves
RegisteredAs(converter) ==
    CASE converter = "double" -> "doubleAdHocConverter"
      [] converter = "neg" -> "negAdHocConverter"
      [] OTHER -> converter

\* what the conversion cls.convert({'a': val}) gives when the rule's
\* converter is named and the name stands for entry ("" for none): the
\* exception, and the dict returned
Applied(entry, val) ==
    CASE val = None -> <<XNone, [EmptyDict EXCEPT !["a"] = None]>>
      [] val # None /\ entry = "" -> <<XKeyError, EmptyDict>>
      [] val # None /\ entry = "doubleAdHocConverter" ->
             <<XNone, [EmptyDict EXCEPT !["a"] = IntV(2 * val.n)]>>
      [] val # None /\ entry = "negAdHocConverter" ->
             <<XNone, [EmptyDict EXCEPT !["a"] = IntV(0 - val.n)]>>
      [] val # None /\ entry = "method" ->
             <<XNone, [EmptyDict EXCEPT !["a"] = IntV(val.n % 2)]>>
      [] OTHER ->                 \* a Converter class: its source is a dict,
                                  \* its result the dict made last
             IF val.k = "ref" THEN <<XNone, [EmptyDict EXCEPT !["a"] = Ref(4)]>>
             ELSE <<XTypeError, EmptyDict>>

\* the dict a Converter class makes of {'a': 1, 'b': 1}
NestedResult(entry) ==
    IF entry = "SubConverter" THEN [EmptyDict EXCEPT !["a"] = IntV(1), !["b"] = IntV(1)]
    ELSE EmptyDict

\* in the state after a conversion: the name resolved to the class's method
\* of that name, or else to the registry's entry, whatever the class
NamedResolves ==
    LET shadowed == call.cls.method.name = call.name
        entry == IF shadowed THEN "method" ELSE named_converters[call.name]
        val == call.h0[1]["a"]
    IN  /\ Result = Applied(entry, val)
        /\ (Succeeded /\ val.k = "ref") => heap[4] = NestedResult(entry)

(* C18. The registry is shared by all classes and the last registration    *)
(* wins: a registration through any class makes its name stand for the     *)
(* converter registered, whatever the name stood for, an unregistration    *)
(* removes the name, both leave the other names alone and a conversion     *)
(* leaves the registry alone; a conversion by any class applies the        *)
(* converter the name stands for (a registered function to the value       *)
(* being converted) unless a method of the class has that name, and fails  *)
(* when the name stands for nothing.                                       *)
C18_LastRegistrationWins ==
    [][ /\ call'.family = "register" =>
              named_converters' =
                  [named_converters EXCEPT ![call'.name] = RegisteredAs(call'.converter)]
        /\ (call'.family = "unregister" /\ outcome'.x = XNone) =>
              named_converters' = [named_converters EXCEPT ![call'.name] = ""]
        /\ call'.family = "named" =>
              /\ named_converters' = named_converters
              /\ NamedResolves'
      ]_vars

\* 'a' was registered as lambda x: -x and 'ab' as SubConverter; 'dict' was
\* unregistered; a class without methods converts {'a': 1} by 'a'
C18_Witness ==
    /\ call.family = "named" /\ outcome.done
    /\ call.name = "str:a"
    /\ call.cls.method = NoMethod
    /\ named_converters["str:a"] = "negAdHocConverter"
    /\ named_converters["str:ab"] = "SubConverter"
    /\ named_converters["str:dict"] = ""
    /\ Succeeded
    /\ Returned["a"] = IntV(0 - 1)

----------------------------------------------------------------------------
(* Type declarations.                                                      *)

\* the source is an instance of the type, or of a subclass of it
InstanceOf(source, type) ==
    \/ type = "object"
    \/ type = "dict" /\ source.k = "ref"
    \/ type = "int" /\ source.k \in {"int", "bool"}
    \/ type = "str" /\ source.k = "str"

C19_WitnessUnionToClass ==
    /\ call.family = "types" /\ outcome.done
    /\ call.cls.from_class = {"dict", "int"}
    /\ call.cls.to_class = {"dict", "int"}
    /\ call.source = Ref(1)
    /\ outcome.x = InvalidToClassException

----------------------------------------------------------------------------
(* include_nones, convert_nones_to_blanks and include_empty_strings.       *)

FinalConverterOptions == call.cls.converter_options

\* the value the converter returns: a converter is not called on None, and
\* the rule's function is applied to each element of a list
Converted ==
    LET val == TheSource["a"]
    IN  CASE TheOpts.converter = "absent" \/ val = None -> val
          [] TheOpts.converter = "to_none" /\ val.k = "list" ->
                 ListV([i \in 1..Len(val.e) |-> None])
          [] TheOpts.converter = "to_blank" /\ val.k = "list" ->
                 ListV([i \in 1..Len(val.e) |-> StrV(0)])
          [] TheOpts.converter = "to_none" /\ val.k # "list" -> None
          [] OTHER -> StrV(0)

\* the options drop the value the converter returned
Dropped ==
    \/ ~FinalConverterOptions.include_nones /\ Converted = None
    \/ /\ ~FinalConverterOptions.include_empty_strings
       /\ \/ Converted = StrV(0)
          \/ Converted = None /\ FinalConverterOptions.convert_nones_to_blanks

\* what the options leave of it
Kept ==
    IF Converted = None /\ FinalConverterOptions.convert_nones_to_blanks
    THEN StrV(0) ELSE Converted

\* the washer of str, then value[:max_len]
WashedAndCut ==
    LET washed == IF call.cls.converter_washers = "tail" /\ Kept.k = "str" /\ Kept.n > 0
                  THEN StrV(Kept.n - 1) ELSE Kept
    IN  CASE TheOpts.max_len = None -> washed
          [] TheOpts.max_len # None /\ washed.k = "str" ->
                 StrV(Min(washed.n, TheOpts.max_len.n))
          [] OTHER -> [washed EXCEPT !.e = SubSeq(washed.e, 1,
                                                 Min(Len(washed.e), TheOpts.max_len.n))]

\* then sorted(), of a list of at most two ints or two strs
Final ==
    IF TheOpts.sort = "True" /\ Len(WashedAndCut.e) = 2
          /\ WashedAndCut.e[2].n < WashedAndCut.e[1].n
    THEN ListV(<<WashedAndCut.e[2], WashedAndCut.e[1]>>)
    ELSE WashedAndCut

(* C20 as stated: the options are applied to the final value: with         *)
(* include_nones false no attribute is assigned None, and with             *)
(* include_empty_strings false no attribute is assigned the empty string.  *)
C20_OptionsOnFinalValue ==
    (call.family = "final" /\ Succeeded) =>
        /\ ~FinalConverterOptions.include_nones => Returned["a"] # None
        /\ ~FinalConverterOptions.include_empty_strings => Returned["a"] # StrV(0)

(* C20. include_nones, convert_nones_to_blanks and include_empty_strings   *)
(* are applied to the value the converter returns, before washers, max_len *)
(* truncation and sort: with include_nones false a None is omitted, also   *)
(* under convert_nones_to_blanks; otherwise convert_nones_to_blanks makes  *)
(* a None an empty string; with include_empty_strings false an empty       *)
(* string is omitted; a value that is kept is then washed, truncated and   *)
(* sorted, and assigned, the empty string included.                        *)
C20_OptionsBeforeWashers ==
    (call.family = "final" /\ Succeeded) =>
        Returned["a"] = IF Dropped THEN _SENTRY ELSE Final

\* include_empty_strings false, the source {'a': 'a'} and max_len 0: the
\* attribute is assigned the empty string
C20_Witness ==
    /\ call.family = "final" /\ Succeeded
    /\ ~FinalConverterOptions.include_empty_strings
    /\ TheSource["a"] = StrV(1)
    /\ TheOpts.converter = "absent"
    /\ TheOpts.max_len = IntV(0)
    /\ call.cls.converter_washers = "absent"
    /\ Returned["a"] = StrV(0)

----------------------------------------------------------------------------
\* the value a pluralizing rule resolves, before pluralization: the raw value
\* or, when that is missing, None or '', the default
Produced ==
    IF RawValue \in {_SENTRY, None, StrV(0)} /\ TheOpts.default # _SENTRY
    THEN DefaultValue ELSE RawValue

\* a rule ('a', 'b', {'pluralize': True, ...}) without override resolved a value
PluralizeCase ==
    /\ Succeeded
    /\ call.family = "resolve"
    /\ TheOpts.pluralize
    /\ TheOpts._kwarg_override = None
    /\ Produced # _SENTRY

\* what is resolved from the source or the context is wrapped unless it is a
\* collection, and a default is returned as it is
PluralizedUnlessDefaulted ==
    PluralizeCase =>
        Returned["a"] = IF Produced = RawValue /\ ~val_is_collection(RawValue)
                        THEN ListV(<<RawValue>>) ELSE Produced

(* C21.  A rule with pluralize: True that produces a value always hands on *)
(* a collection: a non-collection is wrapped in a single-element list and  *)
(* a collection is left as it is, whether the value came from the source,  *)
(* from the context or from the default.                                   *)
C21_PluralizedIsCollection ==
    PluralizeCase =>
        /\ val_is_collection(Returned["a"])
        /\ Returned["a"] = IF val_is_collection(Produced) THEN Produced
                           ELSE ListV(<<Produced>>)

\* the source lacks 'b', the rule pluralizes and has the default 'ab', and
\* the destination holds the string
C21_DefaultNotPluralized ==
    ~( /\ PluralizeCase
       /\ RawValue = _SENTRY
       /\ TheOpts.default = StrV(2)
       /\ Returned["a"] = StrV(2) )

----------------------------------------------------------------------------
\* the conversions of the series that returned a dict
Returning == {i \in 1..Len(results) : results[i].x = XNone /\ results[i].v.k = "ref"}

\* the dict that conversion i of the series returned, and the source it had
ResultNo(i) == heap[results[i].v.n]

SourceNo(i) == heap[results[i].source.n]

\* the container the default made for result i
ContainerNo(i) == heap[ResultNo(i)["a"].n]

\* the dicts reachable from result i: the result and its containers
ReachableFrom(i) ==
    {ResultNo(i)["a"].n}
    \cup {ContainerNo(i)[key].n : key \in {k \in Keys : ContainerNo(i)[k].k = "ref"}}

\* the classes of the series whose rule for 'a' has the default dict
DefaultsToDict == {DeepSettingConverter, DeeperSettingConverter}

(* C22.  A callable default is called at every resolution: in a series of  *)
(* conversions by one class every result has containers of its own, which  *)
(* hold what its own source gave and nothing that another conversion set.  *)
C22_DefaultsNotShared ==
  Declared(call.cls) \in DefaultsToDict =>
    /\ \A i \in Returning :
        /\ ResultNo(i)["a"].k = "ref"
        /\ IF call.cls = DeepSettingConverter
           THEN ContainerNo(i) = [EmptyDict EXCEPT !["b"] = SourceNo(i)["b"],
                                                   !["c"] = SourceNo(i)["c"]]
           ELSE /\ ContainerNo(i)["b"].k = "ref"
                /\ ContainerNo(i) = [EmptyDict EXCEPT !["b"] = ContainerNo(i)["b"]]
                /\ heap[ContainerNo(i)["b"].n]
                       = [EmptyDict EXCEPT !["c"] = SourceNo(i)["c"]]
    /\ \A i, j \in Returning : i # j => ReachableFrom(i) \cap ReachableFrom(j) = {}

\* three conversions: the first set 'b', the second 'c', and the third
\* result's container is empty
C22_Witness ==
    /\ call.cls = DeepSettingConverter
    /\ Len(results) = 3
    /\ Returning = {1, 2, 3}
    /\ ContainerNo(1) = [EmptyDict EXCEPT !["b"] = IntV(1)]
    /\ ContainerNo(2) = [EmptyDict EXCEPT !["c"] = IntV(2)]
    /\ ContainerNo(3) = EmptyDict

----------------------------------------------------------------------------
IsPrefix(s, t) == Len(s) <= Len(t) /\ \A i \in 1..Len(s) : s[i] = t[i]

\* the statements of a conversion that runs to its end, in their order
Phases ==
    <<"__init__", "params_for_initialization", "instantiate",
      "params_for_population", "populate_instance">>
    \o (IF call.cls.post_convert = "absent" THEN <<>> ELSE <<"post_convert">>)
    \o <<"return">>

\* the statements of a conversion whose instantiate gave no instance
EarlyReturn == <<"__init__", "params_for_initialization", "instantiate", "return">>

Ran_(statement) == \E i \in 1..Len(running.trace) : running.trace[i] = statement

\* instantiate returned None or _SENTRY (no destination was supplied)
NoInstance ==
    /\ Ran_("instantiate")
    /\ running.pc # "raised"
    /\ call.dest = None
    /\ call.cls.instantiate # "inherited"

\* the call as instance_convert computes it in one piece
AsComputed ==
    outcome.done =>
        /\ outcome.x = RunCall(call).x
        /\ heap = RunCall(call).h
        /\ outcome.x = XNone => outcome.v = RunCall(call).v

(* C23.  The statements of a conversion run in the order: initialization   *)
(* attributes resolved, instance made (or the destination given them),     *)
(* population attributes resolved, instance populated, post_convert,       *)
(* return.  No population attribute is resolved before there is an         *)
(* instance, and when instantiate gives None or _SENTRY that value is      *)
(* returned at once: no population attribute resolved, nothing set, no     *)
(* post_convert.                                                           *)
C23_PhaseOrder ==
    /\ IsPrefix(running.trace, Phases) \/ running.trace = EarlyReturn
    /\ Ran_("params_for_population") =>
           /\ running.trace[3] = "instantiate"
           /\ ~NoInstance
           /\ running.pc \in {"populate_instance", "raised"} => running.inst.k = "ref"
    /\ NoInstance =>
           /\ IsPrefix(running.trace, EarlyReturn)
           /\ running.inst = (IF call.cls.instantiate = "None" THEN None ELSE _SENTRY)
           /\ running.pop_parms = <<>>
           /\ heap = call.h0
           /\ outcome.done => (outcome.x = XNone /\ outcome.v = running.inst)
    /\ running.trace = EarlyReturn => NoInstance
    /\ (outcome.done /\ outcome.x = XNone) => Ran_("return")
    /\ AsComputed

\* instantiate gave _SENTRY: the conversion returned it, although the source
\* lacks the required population attribute and the class has a post_convert
C23_Witness ==
    /\ running.pc = "returned"
    /\ running.trace = EarlyReturn
    /\ call.cls.post_convert = "stamp"
    /\ TheSource["b"] = _SENTRY
    /\ call.cls.conversions[2].f2.required = "True"
    /\ outcome.done
    /\ outcome.v = _SENTRY

\* a conversion with post_convert ran to its end
C23_WitnessFull ==
    /\ running.pc = "returned"
    /\ running.trace = Phases
    /\ call.cls.post_convert = "stamp"
    /\ outcome.v.k = "ref"
    /\ heap[outcome.v.n] = [EmptyDict EXCEPT !["a"] = IntV(1), !["b"] = IntV(2),
                                              !["c"] = True]

----------------------------------------------------------------------------
\* what the destination of the call held under 'a' before the call (nothing
\* when the call made the destination)
HeldBefore == IF call.dest = None THEN _SENTRY ELSE call.h0[call.dest.n]["a"]

\* with merge: True on the rule the destination's 'a' is never set: it
\* refers to what it referred to before
ExplicitMergeNeverSet ==
    (call.family = "merge" /\ Succeeded /\ TheOpts.merge = "True")
        => Returned["a"] = HeldBefore

(* C24.  A rule whose merge is active (merge: True on the rule, or         *)
(* merge_all on the converter) is never set during population: the         *)
(* destination attribute refers to what it referred to before, and the     *)
(* converted value reaches the destination by merging in place only.       *)
C24_MergeNeverSet ==
    (call.family = "merge" /\ Succeeded /\ MergeActive)
        => Returned["a"] = HeldBefore

\* merge_all, a source list of one dict and a destination list of two: the
\* destination's list was replaced by a list of one
C24_MergeAllIsSet ==
    ~( /\ call.family = "merge"
       /\ Succeeded
       /\ call.cls.converter_options.merge_all
       /\ TheOpts.merge = "absent"
       /\ HeldBefore = ListV(<<Ref(4), Ref(5)>>)
       /\ Returned["a"] = ListV(<<Ref(4)>>) )

----------------------------------------------------------------------------
\* the value of the source under 'a', and whether the rule of a reverse
\* call is resolved before there is an instance
Child == TheSource["a"]

AtInitialization == TheOpts.initialization_attribute = "True"

\* the object has the attribute 'c', and it refers to the instance returned
Wired(child) == child.k \in {"ref", "obj"} /\ heap[child.n]["c"] = outcome.v

\* every object of the value is wired
AllWired(val) ==
    IF val_is_collection(val) THEN \A i \in 1..Len(val.e) : Wired(val.e[i])
    ELSE Wired(val)

\* the value holds objects: it is one, or a collection that is not empty
HoldsObjects(val) ==
    \/ val.k \in {"ref", "obj"}
    \/ val_is_collection(val) /\ val.e # <<>>

\* what the code does with reverse_attr_name: a population rule wires what
\* it set, without converter the source's own objects (a dict, an instance
\* or a list of instances; a dict in a list, a number and None refuse the
\* attribute), with a Converter class the dicts it made, while a function
\* that takes the value alone refuses the keyword; an initialization rule
\* with a converter fails on every value but None, and without converter
\* copies the value unwired
ReverseAsCoded ==
    (call.family = "reverse" /\ outcome.done /\ Child # _SENTRY) =>
        IF ~AtInitialization
        THEN /\ Succeeded => (Returned["a"] = None \/ AllWired(Returned["a"]))
             /\ TheOpts.converter = "absent" =>
                    IF (HoldsObjects(Child) /\ Child # ListV(<<Ref(2)>>))
                       \/ Child = ListV(<<>>)
                    THEN Succeeded /\ Returned["a"] = Child
                    ELSE outcome.x = XAttributeError
             /\ (TheOpts.converter = "double" /\ Child \notin {None, ListV(<<>>)})
                    => outcome.x = XTypeError
        ELSE IF TheOpts.converter = "absent"
        THEN Succeeded /\ Returned["a"] = Child /\ heap[2] = call.h0[2]
                       /\ heap[3] = call.h0[3] /\ heap[4] = call.h0[4]
        ELSE IF Child = None THEN Succeeded /\ Returned["a"] = None
        ELSE outcome.x = XValueError

(* C25.  A rule with reverse_attr_name: when there is a destination        *)
(* instance, the converted child (each element of a collection) has the    *)
(* attribute, referring to the instance; when there is none yet (the rule  *)
(* is an initialization attribute) the conversion fails with an error,     *)
(* with or without a converter.                                            *)
C25_ReverseWiredOrError ==
    (call.family = "reverse" /\ outcome.done /\ HoldsObjects(Child)) =>
        IF AtInitialization THEN outcome.x # XNone
        ELSE Succeeded => AllWired(Returned["a"])

\* an initialization rule without converter: the instance was copied and
\* has no attribute 'c'
C25_SilentlySkipped ==
    ~( /\ call.family = "reverse"
       /\ AtInitialization
       /\ TheOpts.converter = "absent"
       /\ Child = Obj(3)
       /\ Succeeded
       /\ Returned["a"] = Obj(3)
       /\ heap[3]["c"] = _SENTRY )

----------------------------------------------------------------------------
\* the destination of a deep call as it was passed ({} when the call makes
\* it), the path of its deep rule and the last segment of the path
DestBefore == IF call.dest = None THEN EmptyDict ELSE call.h0[call.dest.n]

DeepPath ==
    IF call.cls.conversions[1].f0 = "c" THEN call.cls.conversions[2].f0
    ELSE call.cls.conversions[1].f0

LastSegment == IF DeepPath = "a.b" THEN "b" ELSE "c"

\* the node that the path leads to, from the destination as it was passed
Innermost ==
    IF DeepPath = "a.b" THEN DestBefore["a"]
    ELSE IF DestBefore["a"].k = "ref" THEN call.h0[DestBefore["a"].n]["b"]
    ELSE _SENTRY

\* the dicts of the heap other than the returned one and except are as they
\* were passed
OthersUntouched(except) ==
    \A i \in 1..Len(call.h0) :
        (i \notin except /\ Ref(i) # outcome.v) => heap[i] = call.h0[i]

\* the destination as the rule 'c' alone leaves it
OnlyCSet ==
    Returned = [DestBefore EXCEPT !["c"] = IF TheSource["c"] = _SENTRY THEN @
                                          ELSE TheSource["c"]]

(* C26.  A destination path a.b.c is followed node by node and its last    *)
(* segment is set on the innermost node.  When a node on the way is        *)
(* missing (or None) that assignment is skipped silently: no error,        *)
(* nothing written for the rule, no node created, and the other rules of   *)
(* the list are applied.                                                   *)
C26_DeepPaths ==
    (call.family = "deep" /\ outcome.done /\ TheSource["b"] # _SENTRY) =>
        IF Innermost.k = "ref"
        THEN /\ Succeeded
             /\ heap[Innermost.n] = [call.h0[Innermost.n]
                                        EXCEPT ![LastSegment] = TheSource["b"]]
             /\ OnlyCSet
             /\ OthersUntouched({Innermost.n})
        ELSE IF Innermost \in {_SENTRY, None}
        THEN /\ Succeeded
             /\ OnlyCSet
             /\ OthersUntouched({})
             /\ Len(heap) = Len(call.h0) + (IF call.dest = None THEN 1 ELSE 0)
        ELSE outcome.x = XAttributeError

\* 'a.b.c' into a destination whose 'a' is a dict without 'b': nothing was
\* set for the rule and the rule 'c' was applied
C26_Witness ==
    /\ call.family = "deep"
    /\ Succeeded
    /\ DeepPath = "a.b.c"
    /\ TheSource["b"] = IntV(1)
    /\ TheSource["c"] = IntV(2)
    /\ call.dest = Ref(2)
    /\ DestBefore["a"] = Ref(3)
    /\ call.h0[3]["b"] = _SENTRY
    /\ heap[3] = call.h0[3]
    /\ Returned["c"] = IntV(2)

\* 'a.b.c' set on the innermost dict
C26_WitnessSet ==
    /\ call.family = "deep"
    /\ Succeeded
    /\ DeepPath = "a.b.c"
    /\ Innermost = Ref(4)
    /\ heap[4] = [EmptyDict EXCEPT !["a"] = IntV(0), !["c"] = IntV(1)]

----------------------------------------------------------------------------
\* the context that the conversions of a call stack have installed, one
\* upon the other, from an empty context
RECURSIVE InstalledBy(_)
InstalledBy(frames) ==
    IF frames = <<>> THEN EmptyContext
    ELSE LET top == frames[Len(frames)]
             below == InstalledBy(SubSeq(frames, 1, Len(frames) - 1))
         IN  IF top.installed
             THEN DictMerge(DictMerge(below, new_built_context(top.cls)), top._context)
             ELSE below

\* what a conversion of thread t reads as the context comes from the
\* conversions in progress on thread t
OwnStackOnly == \A t \in Threads : threads[t].context = InstalledBy(threads[t].frames)

\* a step of one thread leaves the context of the other as it is
OthersUndisturbed ==
    \A t \in Threads :
        threads'[t].frames = threads[t].frames => threads'[t].context = threads[t].context

(* C27.  The context slot is per thread: under every interleaving of two   *)
(* threads that enter and leave conversions, each thread reads only what   *)
(* the conversions on its own call stack installed, and a thread entering  *)
(* or leaving a conversion never changes the context the other sees.       *)
C27_ThreadIsolation == [](OwnStackOnly) /\ [][OthersUndisturbed]_vars

\* both threads are inside conversions and see different contexts
C27_Witness ==
    /\ Len(threads[1].frames) = 2
    /\ Len(threads[2].frames) = 1
    /\ Settled(1)
    /\ Settled(2)
    /\ threads[1].context["a"] = StrV(2)
    /\ threads[1].context["c"] = IntV(2)
    /\ threads[2].context["a"] = IntV(1)
    /\ threads[2].context["b"] = _SENTRY

----------------------------------------------------------------------------
\* the rule for 'a' of an atomic call is resolved before population
InitializesA ==
    \E i \in 1..2 : /\ call.cls.conversions[i].f0 = "a"
                    /\ call.cls.conversions[i].f2.initialization_attribute = "True"

\* the rule for 'b' of an atomic call
RuleB == IF call.cls.conversions[1].f0 = "b" THEN call.cls.conversions[1]
         ELSE call.cls.conversions[2]

\* the call raised while it resolved its rules
FailedResolving ==
    /\ call.family = "atomic"
    /\ outcome.done
    /\ outcome.x \in {XRequired, XCondition, XTypeError, XKeyError}

(* C28.  Population resolves every rule before it sets anything: when the  *)
(* resolution of a population rule raises, no population attribute has     *)
(* been set; into a supplied destination and without initialization        *)
(* attributes a conversion that fails leaves the destination, and every    *)
(* other object, as it was.                                                *)
C28_ResolveAllThenWrite ==
    FailedResolving =>
        /\ call.dest # None =>
               /\ heap[call.dest.n]["b"] = call.h0[call.dest.n]["b"]
               /\ ~InitializesA => heap[call.dest.n] = call.h0[call.dest.n]
        /\ ~InitializesA => \A i \in 1..Len(call.h0) : heap[i] = call.h0[i]

\* 'a' was resolved, then the required 'b' was not found: the destination
\* still holds its own 'a'
C28_Witness ==
    /\ FailedResolving
    /\ outcome.x = XRequired
    /\ call.dest = Ref(2)
    /\ ~InitializesA
    /\ call.cls.conversions[1].f0 = "a"
    /\ TheSource["a"] = IntV(1)
    /\ TheSource["b"] = _SENTRY
    /\ heap[2] = [EmptyDict EXCEPT !["a"] = IntV(2), !["c"] = IntV(2)]

----------------------------------------------------------------------------
(* Overrides and the class-level declarations.                             *)

\* the value v of heap h and the value w of heap g are the same value, a
\* dict being taken by its keys and their values
RECURSIVE SameValue(_, _, _, _)
SameValue(h, v, g, w) ==
    IF v.k # w.k THEN FALSE
    ELSE IF v.k = "ref"
    THEN \A key \in Keys : SameValue(h, h[v.n][key], g, g[w.n][key])
    ELSE v = w

\* the conversions of the series that got no extra attributes
WithoutExtraAttrs == {i \in 1..Len(results) : results[i].extra_attrs = <<>>}

\* conversion i of the series, made alone: the class as declared, the
\* same source, nothing converted before
Alone(i) ==
    RunCall([Call("series", Declared(call.cls), Ref(1), EmptyContext, None,
                  <<SourceNo(i)>>)
                EXCEPT !.extra_attrs = <<>>, !.count = 1])

\* conversion i gave what it gives alone: the same exception or the same
\* value
AsAlone(i) ==
    Bind(Alone(i), LAMBDA alone :
         /\ results[i].x = alone.x
         /\ SameValue(heap, results[i].v, alone.h, alone.v))

\* the class of the series holds the rules it was declared with
DeclarationsKept == call.cls.conversions = Declared(call.cls).conversions

\* every rule of the class names its destination
NamesItsDestinations(cls) ==
    \A i \in 1..Len(cls.conversions) :
        cls.conversions[i].form # "callable" /\ cls.conversions[i].f0 # ""

----------------------------------------------------------------------------
(* The source after a conversion.                                          *)

\* the objects a value holds: itself, if it is a dict or an instance, or
\* the dicts and instances in a list
Held(v) ==
    IF v.k \in {"ref", "obj"} THEN {v.n}
    ELSE IF v.k \in {"list", "tuple"}
    THEN {v.e[i].n : i \in {j \in 1..Len(v.e) : v.e[j].k \in {"ref", "obj"}}}
    ELSE {}

\* the objects one step from the objects ns, in the heap before the call
Step(ns) == ns \cup UNION {Held(call.h0[n][key]) : n \in ns, key \in Keys}

\* the objects reachable from the source before the call (the heaps of the
\* model are at most three objects deep)
SourceObjects ==
    IF call.source.k \in {"ref", "obj"} THEN Step(Step(Step({call.source.n})))
    ELSE {}

\* the objects of the source that the conversion left different
Modified == {n \in SourceObjects : heap[n] # call.h0[n]}

\* the destination supplied is no object of the source
DestApart == call.dest.k \in {"ref", "obj"} => call.dest.n \notin SourceObjects

WiresPassedThrough ==
    \E i \in 1..Len(outcome.attrs) :
        /\ outcome.attrs[i].opts.reverse_attr_name # "absent"
        /\ outcome.attrs[i].opts.converter = "absent"
        /\ outcome.attrs[i].opts.filter = "absent"

\* a destination path that begins with 'self', which default_getter
\* resolves to the source whatever the instance
SetsThroughSelf ==
    \E i \in 1..Len(outcome.attrs) :
        LET path == partition(outcome.attrs[i].to)
        IN  path[1] = "self" /\ path[2] # ""

C30_WitnessSelf ==
    /\ call.family = "self"
    /\ Succeeded
    /\ call.h0[1]["b"] = _SENTRY
    /\ heap[1]["b"] = IntV(2)

====
